---- MODULE Spec2Model ----
(***************************************************************************)
(* Comment distribution pipeline of local-ai-live-tools.                   *)
(*                                                                         *)
(*  Part I   the in-process transcript buffer of RealTimeVoiceRecognizer   *)
(*           (src/voice.py): recognized_texts guarded by text_lock, the    *)
(*           processing threads that append to it and the caller threads   *)
(*           that read, clear and consume it.        Specification:        *)
(*           SpecBuffer.                                                   *)
(*  Part II  the response normalizer, the comment filter/shuffler and the  *)
(*           comment queue of OllamaVisionExplainer (src/main.py).         *)
(*           Specifications: SpecFilter (one reply, normalized, filtered   *)
(*           and enqueued) and SpecQueue (the analysis loop feeding the    *)
(*           queue while the output worker drains it).                     *)
(*                                                                         *)
(* An Optional[x] of the Python code is a sequence of length 0 (None) or   *)
(* 1 (the value).  A Python str is a sequence of one-character strings;    *)
(* a character outside ASCII is written "uXXXX" after its code point.      *)
(***************************************************************************)
EXTENDS Integers, Sequences, FiniteSets, TLC

VARIABLES
    \* ---- Part I: RealTimeVoiceRecognizer (src/voice.py) ----
    recognized_texts,   \* self.recognized_texts: list of utterances
    text_lock,          \* self.text_lock: TRUE while the Lock is held
    clock,              \* the wall clock read by time.time()
    next_text,          \* number of chunks transcribed to a non-empty text
    vpc,                \* position of every voice-side thread
    text,               \* local `text` of a processing thread
    timestamp,          \* local `timestamp` of a processing thread
    since_timestamp,    \* argument of the running buffer operation
    limit,              \* argument of the running get_recent_texts
    filtered_texts,     \* local filtered_texts / recent_texts / result
    kept,               \* the list built by the second comprehension
    \* history of the buffer, for stating the claims
    appended,           \* every utterance appended so far, in append order
    removed,            \* texts handed out by a consume or dropped by a clear
    pre,                \* recognized_texts when the running operation took the lock
    touched,            \* a clear_texts or a get_and_clear_recent_texts has run
    \* ---- Part II: OllamaVisionExplainer (src/main.py) ----
    persona_manager,    \* self.persona_manager is set (persona mode)
    comment_queue,      \* self.comment_queue: FIFO of Optional[CommentItem]
    apc,                \* position of the analysis loop
    cycles,             \* replies received by the analysis loop so far
    cycle_limit,        \* replies the run lets the analysis loop receive
    raw_response,       \* the reply text of the comment model
    expected_persona_ids, \* ids of the personas the request asked for
    response,           \* value returned by parse_json_response
    valid_comments,     \* shuffled valid_comments not yet put on the queue
    last_log,           \* what the last add_comments_to_queue call logged
    wpc,                \* position of the output worker
    comment_item,       \* local comment_item of the output worker
    \* history of the queue, for stating the claims
    enqueued,           \* items put by the running/last add_comments_to_queue
    queue_before,       \* comment_queue when that call started
    queue_batch,        \* for each queued element, the cycle that put it
    last_batch_dequeued, \* cycle of the element the worker took last
    \* ---- Part III: the log file, the worker's loop and the shutdown ----
    xml_file,           \* content of self.xml_file; None while it is absent
    comment_counter,    \* self.comment_counter
    xml_thread_running, \* self.xml_thread_running
    unfinished_tasks,   \* comment_queue.unfinished_tasks
    voice_kind,         \* "none", "local" or "remote": self.voice_recognizer
    is_processing,      \* voice_recognizer.is_processing (local)
    is_recording,       \* voice_recognizer.is_recording (local)
    remote_stop_calls,  \* stop requests sent to the recognition server
    \* history of the run, for stating the claims
    write_log,          \* one record per call of _write_single_comment_to_xml
    queue_tag,          \* for each queued element, its serial and put time
    item_tag,           \* the tag of the element the worker holds
    acked,              \* serials for which task_done was called
    backoff_due,        \* a write failed and no backoff has followed yet
    exit_cause,         \* why the worker left its loop
    stop_events,        \* the steps of the shutdown, in the order taken
    \* ---- Part IV: PersonaManager (src/persona_manager.py) ----
    ppc,                \* position of the caller of get_random_personas
    sample_count,       \* argument `count`
    sample_exclude,     \* argument `exclude`: None or a collection of ids
    selected,           \* the list returned
    sample_raised,      \* the call raised
    \* ---- Part V: remove_character_count (src/main.py) ----
    cpc,                \* position of the caller of remove_character_count
    count_comment,      \* argument `comment`
    count_once,         \* what the call returned
    count_twice,        \* what a call on that result returned
    \* ---- Part VI: the HTTP clients (src/voice.py, src/main.py) ----
    hpc,                \* position of the caller of an HTTP client
    http_op,            \* the operation called
    http_fault,         \* the exception of the request, or "none"
    http_status,        \* response.status_code
    http_body,          \* kind of the body of the response
    http_result,        \* how the operation ended
    last_connection_check, \* self._last_connection_check
    current_time,       \* time.time() in is_available
    \* ---- Part VII: the stages of an analysis cycle (src/main.py) ----
    image_analysis,     \* local image_analysis of the analysis loop
    cycle_fault,        \* the exception of the cycle's last request, or "none"
    interval,           \* argument `interval` of run_continuous_analysis
    \* ---- Part VIII: the pacing of the output worker (src/main.py) ----
    queue_size,         \* local queue_size of the worker's last iteration
    wait_time,          \* local wait_time, in tenths of a second
    paced_writes,       \* calls of the log writer before that sleep
    \* ---- Part IX: capture and chunking (src/voice.py) ----
    audio_queue,        \* self.audio_queue: FIFO of frames
    frames_captured,    \* calls of audio_callback so far
    next_sample,        \* serial number of the next captured sample
    started,            \* processing threads started so far
    kpc,                \* position of every processing thread
    audio_buffer,       \* local audio_buffer of every processing thread
    \* history of the capture, for stating the claims
    chunks,             \* process_data of every slice, per thread
    pulled,             \* the frames every thread took from audio_queue
    dropped,            \* frames audio_callback discarded
    \* ---- Part X: starts and stops of the output thread (src/main.py) ----
    xml_output_thread,  \* self.xml_output_thread: 0 for None, or a thread
    tpc,                \* position of every output thread created
    thread_item,        \* local comment_item of every output thread
    lpc,                \* position of the caller of start, stop and put
    \* history of the output threads, for stating the claims
    calls,              \* what every call of start and stop did
    puts,               \* comments put on the queue so far
    thread_writes,      \* the comments written, with the writing thread
    stop_marks          \* the queue and the writes at every sentinel put

bufferVars == <<recognized_texts, text_lock, clock, next_text, vpc, text,
                timestamp, since_timestamp, limit, filtered_texts, kept,
                appended, removed, pre, touched>>

queueVars == <<persona_manager, comment_queue, apc, cycles, cycle_limit,
               raw_response,
               expected_persona_ids, response, valid_comments, last_log, wpc,
               comment_item, enqueued, queue_before, queue_batch,
               last_batch_dequeued>>

logVars == <<xml_file, comment_counter, write_log>>

runVars == <<xml_thread_running, unfinished_tasks, voice_kind, is_processing,
             is_recording, remote_stop_calls, queue_tag, item_tag, acked,
             backoff_due, exit_cause, stop_events>>

personaVars == <<ppc, sample_count, sample_exclude, selected, sample_raised>>

countVars == <<cpc, count_comment, count_once, count_twice>>

\* the variables of the calls of single functions
httpVars == <<hpc, http_op, http_fault, http_status, http_body, http_result,
              last_connection_check, current_time>>

cycleVars == <<image_analysis, cycle_fault, interval>>

paceVars == <<queue_size, wait_time, paced_writes>>

lifeVars == <<xml_output_thread, tpc, thread_item, lpc, calls, puts,
              thread_writes, stop_marks>>

captureVars == <<audio_queue, frames_captured, next_sample, started, kpc,
                 audio_buffer, chunks, pulled, dropped>>

callVars == <<personaVars, countVars, httpVars, cycleVars, paceVars,
             captureVars, lifeVars>>

vars == <<bufferVars, queueVars, logVars, runVars, callVars>>

-----------------------------------------------------------------------------
(* Bounds of the model *)

\* utterances recognized in one run
MaxAppends == 3
\* last value of the wall clock
MaxClock == 2

\* processing threads: a recognizer can have more than one when /start
\* follows /stop before the earlier thread has left its loop
ProcThreads == {"proc1", "proc2"}
\* the thread calling the buffer's read side (the analysis loop, or the
\* request handler of the recognition server)
CallerThreads == {"api1"}
VoiceThreads == ProcThreads \cup CallerThreads

None == <<>>
Some(x) == <<x>>
IsNone(o) == o = <<>>
Val(o) == o[1]

\* argument values the callers pass
SinceValues == {None} \cup {Some(s) : s \in 0..MaxClock}
LimitValues == {None} \cup {Some(l) : l \in (0 - 1)..MaxAppends}

-----------------------------------------------------------------------------
(* Part I: pure parts of the buffer operations *)

\* the comparison slackened to >=
NewerThanOrAt(lst, since) == SelectSeq(lst, LAMBDA item : item.time >= since)

\* [item for item in lst if item['time'] > since_timestamp]
NewerThan(lst, since) == SelectSeq(lst, LAMBDA item : item.time > since)

\* [item for item in lst if item['time'] <= since_timestamp]
NotNewerThan(lst, since) == SelectSeq(lst, LAMBDA item : item.time <= since)

\* lst[:n] in place of lst[-n:]
SliceFirst(lst, n) ==
    SubSeq(lst, 1, IF n < Len(lst) THEN n ELSE Len(lst))

\* lst[-n:] for n > 0: Python clamps the start index at 0
SliceLast(lst, n) ==
    LET start == IF Len(lst) - n < 0 THEN 0 ELSE Len(lst) - n
    IN  SubSeq(lst, start + 1, Len(lst))

\* get_recent_texts, first statement: filter by time, or copy
FilterByTime(lst, since) ==
    IF ~IsNone(since) THEN NewerThan(lst, Val(since)) ELSE lst

\* get_recent_texts, second statement: keep the newest `limit`
ApplyLimit(lst, lim) ==
    IF ~IsNone(lim) /\ Val(lim) > 0 THEN SliceLast(lst, Val(lim)) ELSE lst

\* the second comprehension with < in place of <=
KeptStrictlyOlder(lst, since) == SelectSeq(lst, LAMBDA item : item.time < since)

\* the second comprehension keeping what was returned, dropping the rest
KeptFresh(lst, since) == SelectSeq(lst, LAMBDA item : item.time > since)

\* the list the second comprehension of get_and_clear_recent_texts builds
KeptAfterConsume(lst, since) == NotNewerThan(lst, since)

\* an append that replaces the last entry when it carries the same time
AppendEntryDedup(lst, entry) ==
    IF lst # <<>> /\ lst[Len(lst)].time = entry.time
    THEN [lst EXCEPT ![Len(lst)] = entry]
    ELSE Append(lst, entry)

\* self.recognized_texts.append({...})
AppendEntry(lst, entry) == Append(lst, entry)

\* a with-statement that does not wait
LockNotWaitedFor == TRUE

\* what `with self.text_lock:` waits for
LockFree == text_lock = FALSE

Texts(lst) == {lst[i].text : i \in DOMAIN lst}

-----------------------------------------------------------------------------
(* Part I: the threads *)

InsidePc == {"p_release",
             "g_filter", "g_limit", "g_return",
             "l_clear", "l_release",
             "c_read", "c_keep", "c_store", "c_clear", "c_return"}

BufferInit ==
    /\ recognized_texts = <<>>
    /\ text_lock = FALSE
    /\ clock = 1
    /\ next_text = 0
    /\ vpc = [t \in VoiceThreads |-> "idle"]
    /\ text = [t \in ProcThreads |-> 0]
    /\ timestamp = [t \in ProcThreads |-> 0]
    /\ since_timestamp = [t \in CallerThreads |-> None]
    /\ limit = [t \in CallerThreads |-> None]
    /\ filtered_texts = [t \in CallerThreads |-> <<>>]
    /\ kept = [t \in CallerThreads |-> <<>>]
    /\ appended = <<>>
    /\ removed = {}
    /\ pre = <<>>
    /\ touched = FALSE

\* time.time() advances
Tick ==
    /\ clock < MaxClock
    /\ clock' = clock + 1
    /\ UNCHANGED <<queueVars, logVars, runVars, callVars>>
    /\ UNCHANGED <<recognized_texts, text_lock, next_text, vpc, text, timestamp,
                   since_timestamp, limit, filtered_texts, kept, appended,
                   removed, pre, touched>>

\* processing_thread: a chunk was transcribed to a non-empty text;
\* timestamp = time.strftime(...) is taken before the lock
ProcRecognize(t) ==
    /\ vpc[t] = "idle"
    /\ next_text < MaxAppends
    /\ next_text' = next_text + 1
    /\ text' = [text EXCEPT ![t] = next_text + 1]
    /\ timestamp' = [timestamp EXCEPT ![t] = clock]
    /\ vpc' = [vpc EXCEPT ![t] = "p_acquire"]
    /\ UNCHANGED <<queueVars, logVars, runVars, callVars>>
    /\ UNCHANGED <<recognized_texts, text_lock, clock, since_timestamp, limit,
                   filtered_texts, kept, appended, removed, pre, touched>>

\* `with self.text_lock:` entered by thread t, going on at position `to`; a
\* thread that finds the lock held waits in front of the with-statement
Acquire(t, to) ==
    /\ LockFree
    /\ text_lock' = TRUE
    /\ pre' = recognized_texts
    /\ vpc' = [vpc EXCEPT ![t] = to]

\* the with-block is left by thread t
Release(t) ==
    /\ text_lock' = FALSE
    /\ pre' = <<>>
    /\ vpc' = [vpc EXCEPT ![t] = "idle"]


\* the dict is built inside the with-block: time.time() is read under the lock
ProcAppend(t) ==
    /\ vpc[t] = "p_acquire"
    /\ Acquire(t, "p_release")
    /\ LET entry == [text |-> text[t], timestamp |-> timestamp[t], time |-> clock]
       IN  /\ recognized_texts' = AppendEntry(recognized_texts, entry)
           /\ appended' = Append(appended, entry)
    /\ UNCHANGED <<queueVars, logVars, runVars, callVars>>
    /\ UNCHANGED <<clock, next_text, text, timestamp, since_timestamp,
                   limit, filtered_texts, kept, removed, touched>>

ProcRelease(t) ==
    /\ vpc[t] = "p_release"
    /\ Release(t)
    /\ text' = [text EXCEPT ![t] = 0]
    /\ timestamp' = [timestamp EXCEPT ![t] = 0]
    /\ UNCHANGED <<queueVars, logVars, runVars, callVars>>
    /\ UNCHANGED <<recognized_texts, clock, next_text, since_timestamp, limit,
                   filtered_texts, kept, appended, removed, touched>>

\* ---- get_recent_texts(since_timestamp, limit) ----
GetCall(t) ==
    /\ vpc[t] = "idle"
    /\ \E s \in SinceValues, l \in LimitValues :
          /\ since_timestamp' = [since_timestamp EXCEPT ![t] = s]
          /\ limit' = [limit EXCEPT ![t] = l]
    /\ Acquire(t, "g_filter")
    /\ UNCHANGED <<queueVars, logVars, runVars, callVars>>
    /\ UNCHANGED <<recognized_texts, clock, next_text, text, timestamp,
                   filtered_texts, kept, appended, removed, touched>>


GetFilter(t) ==
    /\ vpc[t] = "g_filter"
    /\ filtered_texts' = [filtered_texts EXCEPT
                            ![t] = FilterByTime(recognized_texts, since_timestamp[t])]
    /\ vpc' = [vpc EXCEPT ![t] = "g_limit"]
    /\ UNCHANGED <<queueVars, logVars, runVars, callVars>>
    /\ UNCHANGED <<recognized_texts, text_lock, clock, next_text, text, timestamp,
                   since_timestamp, limit, kept, appended, removed, pre, touched>>

GetLimit(t) ==
    /\ vpc[t] = "g_limit"
    /\ filtered_texts' = [filtered_texts EXCEPT
                            ![t] = ApplyLimit(filtered_texts[t], limit[t])]
    /\ vpc' = [vpc EXCEPT ![t] = "g_return"]
    /\ UNCHANGED <<queueVars, logVars, runVars, callVars>>
    /\ UNCHANGED <<recognized_texts, text_lock, clock, next_text, text, timestamp,
                   since_timestamp, limit, kept, appended, removed, pre, touched>>

\* return filtered_texts: the value is handed to the caller, the lock released
GetReturn(t) ==
    /\ vpc[t] = "g_return"
    /\ Release(t)
    /\ since_timestamp' = [since_timestamp EXCEPT ![t] = None]
    /\ limit' = [limit EXCEPT ![t] = None]
    /\ filtered_texts' = [filtered_texts EXCEPT ![t] = <<>>]
    /\ UNCHANGED <<queueVars, logVars, runVars, callVars>>
    /\ UNCHANGED <<recognized_texts, clock, next_text, text, timestamp, kept,
                   appended, removed, touched>>

\* ---- clear_texts() ----
ClearCall(t) ==
    /\ vpc[t] = "idle"
    /\ Acquire(t, "l_clear")
    /\ UNCHANGED <<queueVars, logVars, runVars, callVars>>
    /\ UNCHANGED <<recognized_texts, clock, next_text, text, timestamp,
                   since_timestamp, limit, filtered_texts, kept, appended,
                   removed, touched>>


ClearClear(t) ==
    /\ vpc[t] = "l_clear"
    /\ recognized_texts' = <<>>
    /\ removed' = removed \cup Texts(recognized_texts)
    /\ touched' = TRUE
    /\ vpc' = [vpc EXCEPT ![t] = "l_release"]
    /\ UNCHANGED <<queueVars, logVars, runVars, callVars>>
    /\ UNCHANGED <<text_lock, clock, next_text, text, timestamp, since_timestamp,
                   limit, filtered_texts, kept, appended, pre>>

ClearRelease(t) ==
    /\ vpc[t] = "l_release"
    /\ Release(t)
    /\ UNCHANGED <<queueVars, logVars, runVars, callVars>>
    /\ UNCHANGED <<recognized_texts, clock, next_text, text, timestamp,
                   since_timestamp, limit, filtered_texts, kept, appended,
                   removed, touched>>

\* ---- get_and_clear_recent_texts(since_timestamp) ----
ConsumeCall(t) ==
    /\ vpc[t] = "idle"
    /\ \E s \in SinceValues :
          since_timestamp' = [since_timestamp EXCEPT ![t] = s]
    /\ Acquire(t, "c_read")
    /\ UNCHANGED <<queueVars, logVars, runVars, callVars>>
    /\ UNCHANGED <<recognized_texts, clock, next_text, text, timestamp,
                   limit, filtered_texts, kept, appended, removed, touched>>


\* result = self.recognized_texts.copy()   /   recent_texts = [... > since]
ConsumeRead(t) ==
    /\ vpc[t] = "c_read"
    /\ filtered_texts' = [filtered_texts EXCEPT
                            ![t] = FilterByTime(recognized_texts, since_timestamp[t])]
    /\ vpc' = [vpc EXCEPT ![t] = IF IsNone(since_timestamp[t])
                                  THEN "c_clear" ELSE "c_keep"]
    /\ UNCHANGED <<queueVars, logVars, runVars, callVars>>
    /\ UNCHANGED <<recognized_texts, text_lock, clock, next_text, text, timestamp,
                   since_timestamp, limit, kept, appended, removed, pre, touched>>

\* self.recognized_texts.clear() of the since_timestamp is None branch
ConsumeClear(t) ==
    /\ vpc[t] = "c_clear"
    /\ recognized_texts' = <<>>
    /\ removed' = removed \cup Texts(filtered_texts[t])
    /\ touched' = TRUE
    /\ vpc' = [vpc EXCEPT ![t] = "c_return"]
    /\ UNCHANGED <<queueVars, logVars, runVars, callVars>>
    /\ UNCHANGED <<text_lock, clock, next_text, text, timestamp, since_timestamp,
                   limit, filtered_texts, kept, appended, pre>>

\* right-hand side of `self.recognized_texts = [... <= since_timestamp]`
ConsumeKeep(t) ==
    /\ vpc[t] = "c_keep"
    /\ kept' = [kept EXCEPT
                  ![t] = KeptAfterConsume(recognized_texts, Val(since_timestamp[t]))]
    /\ vpc' = [vpc EXCEPT ![t] = "c_store"]
    /\ UNCHANGED <<queueVars, logVars, runVars, callVars>>
    /\ UNCHANGED <<recognized_texts, text_lock, clock, next_text, text, timestamp,
                   since_timestamp, limit, filtered_texts, appended, removed,
                   pre, touched>>

\* the assignment to self.recognized_texts
ConsumeStore(t) ==
    /\ vpc[t] = "c_store"
    /\ recognized_texts' = kept[t]
    /\ removed' = removed \cup Texts(filtered_texts[t])
    /\ touched' = TRUE
    /\ kept' = [kept EXCEPT ![t] = <<>>]
    /\ vpc' = [vpc EXCEPT ![t] = "c_return"]
    /\ UNCHANGED <<queueVars, logVars, runVars, callVars>>
    /\ UNCHANGED <<text_lock, clock, next_text, text, timestamp, since_timestamp,
                   limit, filtered_texts, appended, pre>>

\* return result / return recent_texts
ConsumeReturn(t) ==
    /\ vpc[t] = "c_return"
    /\ Release(t)
    /\ since_timestamp' = [since_timestamp EXCEPT ![t] = None]
    /\ filtered_texts' = [filtered_texts EXCEPT ![t] = <<>>]
    /\ UNCHANGED <<queueVars, logVars, runVars, callVars>>
    /\ UNCHANGED <<recognized_texts, clock, next_text, text, timestamp, limit,
                   kept, appended, removed, touched>>

BufferNext ==
    \/ Tick
    \/ \E t \in ProcThreads :
          \/ ProcRecognize(t)
          \/ ProcAppend(t)
          \/ ProcRelease(t)
    \/ \E t \in CallerThreads :
          \/ GetCall(t)
          \/ GetFilter(t)
          \/ GetLimit(t)
          \/ GetReturn(t)
          \/ ClearCall(t)
          \/ ClearClear(t)
          \/ ClearRelease(t)
          \/ ConsumeCall(t)
          \/ ConsumeRead(t)
          \/ ConsumeClear(t)
          \/ ConsumeKeep(t)
          \/ ConsumeStore(t)
          \/ ConsumeReturn(t)

-----------------------------------------------------------------------------
(* Part II: strings of the code *)

\* str.lower() on the letters A-Z; every other character is its own
\* lower case in the texts used here
UpperLetters ==
    <<"A", "B", "C", "D", "E", "F", "G", "H", "I", "J", "K", "L", "M",
      "N", "O", "P", "Q", "R", "S", "T", "U", "V", "W", "X", "Y", "Z">>
LowerLetters ==
    <<"a", "b", "c", "d", "e", "f", "g", "h", "i", "j", "k", "l", "m",
      "n", "o", "p", "q", "r", "s", "t", "u", "v", "w", "x", "y", "z">>
LowerChar(c) ==
    IF \E i \in DOMAIN UpperLetters : UpperLetters[i] = c
    THEN LowerLetters[CHOOSE i \in DOMAIN UpperLetters : UpperLetters[i] = c]
    ELSE c
Lower(s) == [i \in 1..Len(s) |-> LowerChar(s[i])]

\* the characters str.strip() removes: space, tab, newline, carriage
\* return, form feed and the ideographic space U+3000
Whitespace == {" ", "\t", "\n", "\r", "\f", "u3000"}

\* str.strip()
Strip(s) ==
    LET solid == {i \in 1..Len(s) : s[i] \notin Whitespace}
    IN  IF solid = {} THEN <<>>
        ELSE SubSeq(s, CHOOSE i \in solid : \A j \in solid : i <= j,
                       CHOOSE i \in solid : \A j \in solid : i >= j)

\* `sub in s` on two str
Contains(s, sub) ==
    \E i \in 0..(Len(s) - Len(sub)) : \A j \in 1..Len(sub) : s[i + j] = sub[j]

\* str.startswith
StartsWith(s, prefix) ==
    Len(s) >= Len(prefix) /\ SubSeq(s, 1, Len(prefix)) = prefix

\* the literal of `"none" not in comment.lower()`
StrNone == <<"n", "o", "n", "e">>

\* handle and persona of the single-comment (str) branch
LegacyHandle == <<"u5b89", "u5168", "b", "o", "t">>
LegacyPersona == <<"u30ec", "u30ac", "u30b7", "u30fc">>

\* what parse_json_response returns for a JSON value that is not an object
SchemaErrorString == <<"J", "S", "O", "N", "u5f62", "u5f0f", "u30a8",
    "u30e9", "u30fc", ":", " ", "u30aa", "u30d6", "u30b8", "u30a7", "u30af",
    "u30c8", "u5f62", "u5f0f", "u3067", "u306f", "u3042", "u308a", "u307e",
    "u305b", "u3093">>

\* what parse_json_response returns when value.get raises for a number:
\* f"... {e}" with e the AttributeError
ParseErrorString ==
    <<"u30ec", "u30b9", "u30dd", "u30f3", "u30b9", "u89e3", "u6790", "u30a8",
    "u30e9", "u30fc", ":", " ", "'", "i", "n", "t", "'", " ", "o", "b",
    "j", "e", "c", "t", " ", "h", "a", "s", " ", "n", "o", " ", "a", "t",
    "t", "r", "i", "b", "u", "t", "e", " ", "'", "g", "e", "t", "'">>

\* prefix of the strings the analysis loop does not pass on
ErrorPrefix == <<"u30a8", "u30e9", "u30fc", ":">>

\* non_game_keywords of is_non_game_comment, in source order
NonGameKeywords ==
    <<<<"p", "y", "t", "h", "o", "n">>,
      <<"u30b3", "u30fc", "u30c9">>,
      <<"u30af", "u30e9", "u30b9">>,
      <<"u95a2", "u6570">>,
      <<"u30e1", "u30bd", "u30c3", "u30c9">>,
      <<"u5909", "u6570">>,
      <<"i", "m", "p", "o", "r", "t">>,
      <<"d", "e", "f", " ">>,
      <<"c", "l", "a", "s", "s", " ">>,
      <<"v", "s", "c", "o", "d", "e">>,
      <<"i", "d", "e">>,
      <<"u30a8", "u30c7", "u30a3", "u30bf">>,
      <<"u30cf", "u30a4", "u30e9", "u30a4", "u30c8">>,
      <<"u69cb", "u6587">>,
      <<"u5b9f", "u88c5">>,
      <<"u30c7", "u30d0", "u30c3", "u30b0">>,
      <<"u30d6", "u30e9", "u30a6", "u30b6">>,
      <<"c", "h", "r", "o", "m", "e">>,
      <<"f", "i", "r", "e", "f", "o", "x">>,
      <<"u30bf", "u30d6">>,
      <<"u", "r", "l">>,
      <<"u30a6", "u30a7", "u30d6">>,
      <<"u691c", "u7d22">>,
      <<"g", "o", "o", "g", "l", "e">>,
      <<"w", "o", "r", "d">>,
      <<"e", "x", "c", "e", "l">>,
      <<"p", "o", "w", "e", "r", "p", "o", "i", "n", "t">>,
      <<"u6587", "u66f8">>,
      <<"u30b9", "u30d7", "u30ec", "u30c3", "u30c9", "u30b7", "u30fc", "u30c8">>,
      <<"u30d7", "u30ec", "u30bc", "u30f3">>,
      <<"u30c7", "u30b9", "u30af", "u30c8", "u30c3", "u30d7">>,
      <<"u30d5", "u30a9", "u30eb", "u30c0">>,
      <<"u30d5", "u30a1", "u30a4", "u30eb">>,
      <<"u30a8", "u30af", "u30b9", "u30d7", "u30ed", "u30fc", "u30e9">>,
      <<"u8a2d", "u5b9a">>,
      <<"u30b3", "u30f3", "u30c8", "u30ed", "u30fc", "u30eb", "u30d1", "u30cd",
        "u30eb">>>>

\* persona_info of add_comments_to_queue without a persona manager
LegacyPersonaInfo ==
       "listener" :>
         [handle |-> <<"u30ea", "u30b9", "u30ca", "u30fc", "b", "o", "t">>,
          persona |-> <<"u30ea", "u30b9", "u30ca", "u30fc">>]
    @@ "safety" :>
         [handle |-> <<"u5b89", "u5168", "u76e3", "u8996", "b", "o", "t">>,
          persona |-> <<"u5b89", "u5168", "u76e3", "u8996", "u54e1">>]
    @@ "expert" :>
         [handle |-> <<"u30b2", "u30fc", "u30e0", "u5c02", "u9580", "b",
                    "o", "t">>,
          persona |-> <<"u30b2", "u30fc", "u30e0", "u5c02", "u9580",
                    "u5bb6">>]
    @@ "fan1" :>
         [handle |-> <<"u30d5", "u30a1", "u30f3", "1">>,
          persona |-> <<"u914d", "u4fe1", "u8005", "u30d5", "u30a1",
                    "u30f3", "1">>]
    @@ "fan2" :>
         [handle |-> <<"u30d5", "u30a1", "u30f3", "2">>,
          persona |-> <<"u914d", "u4fe1", "u8005", "u30d5", "u30a1",
                    "u30f3", "2">>]
    @@ "anti" :>
         [handle |-> <<"u30a2", "u30f3", "u30c1">>,
          persona |-> <<"u914d", "u4fe1", "u8005", "u30a2", "u30f3",
                    "u30c1">>]
    @@ "jikatari" :>
         [handle |-> <<"u5e97", "u9577">>,
          persona |-> <<"u81ea", "u5206", "u8a9e", "u308a">>]
    @@ "ero" :>
         [handle |-> <<"u30a8", "u30ed", "u723a">>,
          persona |-> <<"u30a8", "u30ed", "u723a">>]
    @@ "shogaku" :>
         [handle |-> <<"u5c0f", "u5b66", "u751f">>,
          persona |-> <<"u5c0f", "u5b66", "u751f">>]
    @@ "question" :>
         [handle |-> <<"u8cea", "u554f", "u8005">>,
          persona |-> <<"u8cea", "u554f", "u306e", "u4eba">>]
    @@ "kaomoji" :>
         [handle |-> <<"u9854", "u6587", "u5b57">>,
          persona |-> <<"u9854", "u6587", "u5b57", "u306e", "u4eba">>]
    @@ "safety_monitor" :>
         [handle |-> <<"u5b89", "u5168", "u76e3", "u8996", "b", "o", "t">>,
          persona |-> <<"u5b89", "u5168", "u76e3", "u8996", "u54e1">>]
    @@ "game_expert" :>
         [handle |-> <<"u30b2", "u30fc", "u30e0", "u5c02", "u9580", "b",
                    "o", "t">>,
          persona |-> <<"u30b2", "u30fc", "u30e0", "u5c02", "u9580",
                    "u5bb6">>]

\* the personas PersonaManager creates by default: id :> name, handle
DefaultPersonas ==
       "listener" :>
         [name |-> <<"u30ea", "u30b9", "u30ca", "u30fc">>,
          handle |-> <<"u30ea", "u30b9", "u30ca", "u30fc", "b", "o", "t">>]
    @@ "safety" :>
         [name |-> <<"u5b89", "u5168", "u76e3", "u8996", "u54e1">>,
          handle |-> <<"u5b89", "u5168", "u76e3", "u8996", "b", "o", "t">>]
    @@ "expert" :>
         [name |-> <<"u30b2", "u30fc", "u30e0", "u5c02", "u9580", "u5bb6">>,
          handle |-> <<"u30b2", "u30fc", "u30e0", "u5c02", "u9580", "b",
                    "o", "t">>]
    @@ "fan1" :>
         [name |-> <<"u914d", "u4fe1", "u8005", "u30d5", "u30a1", "u30f3",
                    "1">>,
          handle |-> <<"u30d5", "u30a1", "u30f3", "1">>]
    @@ "fan2" :>
         [name |-> <<"u914d", "u4fe1", "u8005", "u30d5", "u30a1", "u30f3",
                    "2">>,
          handle |-> <<"u30d5", "u30a1", "u30f3", "2">>]

\* known_persona_keys of parse_json_response
KnownPersonaKeys ==
    {"listener", "safety", "expert", "fan1", "fan2", "anti", "jikatari",
     "ero", "shogaku", "question", "kaomoji", "safety_monitor", "game_expert"}

-----------------------------------------------------------------------------
(* Part II: texts a comment model replies with *)
TextNiceBase == <<"n", "i", "c", "e", " ", "b", "a", "s", "e", "!">>
TextGg == <<"g", "g">>
TextGoodJa == <<"u3068", "u3066", "u3082", "u826f", "u3044">>
TextPlain == <<"g", "o", "o", "d", " ", "g", "a", "m", "e">>
TextNoneLower == <<"n", "o", "n", "e">>
TextUpperNone == <<"N", "O", "N", "E">>
TextNoneReport == <<"i", "t", "'", "s", " ", "f", "i", "n", "e", ",", " ",
    "n", "o", "n", "e", " ", "t", "o", " ", "r", "e", "p", "o", "r", "t">>
TextExcelSheet == <<"c", "h", "e", "c", "k", " ", "t", "h", "e", " ", "e",
    "x", "c", "e", "l", " ", "s", "h", "e", "e", "t">>
TextUpperIde == <<"N", "i", "c", "e", " ", "I", "D", "E">>
TextFileJa == <<"u30d5", "u30a1", "u30a4", "u30eb", "u3092", "u958b",
    "u3044", "u305f">>
TextBlank == <<" ", " ">>
TextEmpty == <<>>
TextErrorReply == <<"u30a8", "u30e9", "u30fc", ":", " ", "t", "i", "m", "e",
    "o", "u", "t">>

\* texts with a character count at the end
TextCounted ==
    <<"g", "g", "(", "2", "u6587", "u5b57", ")">>

TextCountedWide ==
    <<"g", "g", "uff08", "uff11", "uff12", "u6587", "u5b57", "uff09">>

\* texts with markup in them
TextCloseTag ==
    <<"g", "g", "<", "/", "l", "o", "g", ">">>

TextAmpersand ==
    <<"a", "&", "b", "<", "c">>


-----------------------------------------------------------------------------
(* Part II: the response normalizer *)

\* A JSON value of a reply: a string, or an object with an optional
\* "comment" string.  The request types every persona property as a string
\* (send_comment_generation_to_ollama), the object form is the older reply
\* format the code still reads.
JStr(s) == [kind |-> "str", has |-> FALSE, str |-> s]
JDict(s) == [kind |-> "dict", has |-> TRUE, str |-> s]
JDictNoComment == [kind |-> "dict", has |-> FALSE, str |-> <<>>]
\* values the request does not ask for: a number other than 0, and null
JNumber == [kind |-> "number", has |-> FALSE, str |-> <<>>]
JNull == [kind |-> "null", has |-> FALSE, str |-> <<>>]

\* A Python dict is the sequence of its entries in insertion order.
\* d[k] = v: a present key keeps its position and takes the new value
DictSet(d, k, v) ==
    IF \E i \in DOMAIN d : d[i].key = k
    THEN [i \in DOMAIN d |-> IF d[i].key = k THEN [key |-> k, value |-> v]
                                             ELSE d[i]]
    ELSE Append(d, [key |-> k, value |-> v])

DictKeys(d) == {d[i].key : i \in DOMAIN d}

DictGet(d, k) == d[CHOOSE i \in DOMAIN d : d[i].key = k].value

\* dict d after d[k] = v for every entry of the sequence `entries`
RECURSIVE DictUpdate(_, _)
DictUpdate(d, entries) ==
    IF entries = <<>> THEN d
    ELSE DictUpdate(DictSet(d, Head(entries).key, Head(entries).value),
                    Tail(entries))

\* json.loads on the members of an object: a repeated name keeps the place
\* of its first occurrence and the value of its last
JsonLoads(members) == DictUpdate(<<>>, members)

\* what parse_json_response and the analysis loop hand on: a dict or a str
DictResponse(d) == [isdict |-> TRUE, items |-> d, str |-> <<>>]
StrResponse(s) == [isdict |-> FALSE, items |-> <<>>, str |-> s]

\* `value if isinstance(value, str) else value.get("comment", "")`
CommentOf(value) ==
    IF value.kind = "dict"
    THEN IF value.has THEN value.str ELSE <<>>
    ELSE value.str

\* value.get("comment", "") raises AttributeError: the value is neither a
\* str (not asked for its comment) nor a dict
GetRaises(value) == value.kind \notin {"str", "dict"}

\* the conversion of the older keys raises
ConvertRaises(d) ==
    \E i \in DOMAIN d :
        d[i].key \in {"safety_monitor", "game_expert"} /\ GetRaises(d[i].value)

\* the conversion of the older keys safety_monitor and game_expert
ConvertLegacyKeys(d) ==
    LET c1 == IF "safety_monitor" \in DictKeys(d)
              THEN DictSet(<<>>, "safety",
                           JStr(CommentOf(DictGet(d, "safety_monitor"))))
              ELSE <<>>
        c2 == IF "game_expert" \in DictKeys(d)
              THEN DictSet(c1, "expert",
                           JStr(CommentOf(DictGet(d, "game_expert"))))
              ELSE c1
    IN  DictUpdate(c2, SelectSeq(d, LAMBDA e :
                           e.key \notin {"safety_monitor", "game_expert"}))

\* a normalizer that insists on every expected persona being in the reply
ParseJsonResponseStrict(raw, expected) ==
    IF raw.syntax = "text" THEN StrResponse(raw.text)
    ELSE IF raw.syntax # "object" THEN StrResponse(SchemaErrorString)
    ELSE IF \A i \in DOMAIN expected :
                expected[i] \in DictKeys(JsonLoads(raw.members))
         THEN DictResponse(JsonLoads(raw.members))
         ELSE StrResponse(SchemaErrorString)

\* a normalizer that rejects an object with none of the expected personas
ParseJsonResponseNeedsMatch(raw, expected) ==
    IF raw.syntax = "text" THEN StrResponse(raw.text)
    ELSE IF raw.syntax # "object" THEN StrResponse(SchemaErrorString)
    ELSE IF \E i \in DOMAIN expected :
                expected[i] \in DictKeys(JsonLoads(raw.members))
         THEN DictResponse(JsonLoads(raw.members))
         ELSE StrResponse(SchemaErrorString)

\* parse_json_response(raw_response, expected_persona_ids)
ParseJsonResponse(raw, expected) ==
    IF raw.syntax = "text" THEN StrResponse(raw.text)
    ELSE IF raw.syntax # "object" THEN StrResponse(SchemaErrorString)
    ELSE LET parsed_json == JsonLoads(raw.members)
         IN  IF expected # <<>>
             THEN DictResponse(parsed_json)
             ELSE IF DictKeys(parsed_json) \cap KnownPersonaKeys # {}
                     /\ {"safety_monitor", "game_expert"}
                            \cap DictKeys(parsed_json) # {}
                  THEN IF ConvertRaises(parsed_json)
                       THEN StrResponse(ParseErrorString)
                       ELSE DictResponse(ConvertLegacyKeys(parsed_json))
                  ELSE DictResponse(parsed_json)

-----------------------------------------------------------------------------
(* Part II: the comment filter *)

\* keyword matching that does not fold case
IsNonGameCommentCaseSensitive(comment) ==
    \E i \in DOMAIN NonGameKeywords : Contains(comment, NonGameKeywords[i])

\* is_non_game_comment(comment)
IsNonGameComment(comment) ==
    LET comment_lower == Lower(comment)
    IN  \E i \in DOMAIN NonGameKeywords :
            Contains(comment_lower, NonGameKeywords[i])

\* a validity check that does not trim
BasicallyValidUntrimmed(comment) ==
    comment # <<>> /\ ~Contains(Lower(comment), StrNone)

\* `comment and comment.strip() != "" and "none" not in comment.lower()`
BasicallyValid(comment) ==
    /\ comment # <<>>
    /\ Strip(comment) # <<>>
    /\ ~Contains(Lower(comment), StrNone)

\* a persona table that is the fixed one with or without a registry
PersonaInfoFixed(with_manager) == LegacyPersonaInfo

\* persona_info of add_comments_to_queue
PersonaInfo(with_manager) ==
    IF with_manager
    THEN [id \in DOMAIN DefaultPersonas |->
             [handle |-> DefaultPersonas[id].handle,
              persona |-> DefaultPersonas[id].name]]
    ELSE LegacyPersonaInfo

\* the entry is looked at: not the debug field, and a known persona
Considered(e, info) == e.key # "screen_analysis" /\ e.key \in DOMAIN info

\* `comment and comment.strip() != ""` raises AttributeError: the entry is
\* looked at and its comment is a number other than 0
StripRaises(e, info) == Considered(e, info) /\ e.value.kind = "number"

\* comment_item of the dict branch
MakeItem(e, info) ==
    [handle |-> info[e.key].handle,
     persona |-> info[e.key].persona,
     comment |-> CommentOf(e.value)]

\* valid_comments after the loop over response_data.items()
ValidComments(d, info) ==
    LET passes(e) == /\ Considered(e, info)
                     /\ BasicallyValid(CommentOf(e.value))
                     /\ ~IsNonGameComment(CommentOf(e.value))
        chosen == SelectSeq(d, passes)
    IN  [i \in DOMAIN chosen |-> MakeItem(chosen[i], info)]

\* filtered_count after the loop
FilteredCount(d, info) ==
    Len(SelectSeq(d, LAMBDA e : /\ Considered(e, info)
                                /\ BasicallyValid(CommentOf(e.value))
                                /\ IsNonGameComment(CommentOf(e.value))))

\* the condition of the single-comment (str) branch
LegacyValid(s) == BasicallyValid(s) /\ ~IsNonGameComment(s)

\* comment_item of the single-comment branch
LegacyItem(s) ==
    [handle |-> LegacyHandle, persona |-> LegacyPersona, comment |-> s]

\* the orders random.shuffle can leave a list in
Shuffles(lst) ==
    {[i \in DOMAIN lst |-> lst[p[i]]] : p \in Permutations(DOMAIN lst)}

\* a queue that hands out the newest element first
QueuePutFront(q, x) == <<x>> \o q

\* queue.Queue.put
QueuePut(q, x) == Append(q, x)

-----------------------------------------------------------------------------
(* Part II: replies and requests of the model's runs *)

\* entries of one reply object
MaxEntries == 2
\* replies the analysis loop receives in one run of SpecQueue
MaxCycles == 2
\* replies the analysis loop receives in one run with faults, with the
\* clock or with the shutdown
MaxRunCycles == 1

\* member names of reply objects: personas of both tables, an older key,
\* the debug field and a name that is no persona
ReplyKeys == {"listener", "safety", "safety_monitor", "screen_analysis", "foo"}

\* every kind of member value, met in replies of one member
AllValues ==
    {JStr(TextNiceBase), JStr(TextGoodJa), JStr(TextNoneLower),
     JStr(TextUpperNone), JStr(TextNoneReport), JStr(TextExcelSheet),
     JStr(TextUpperIde), JStr(TextFileJa), JStr(TextBlank), JStr(TextEmpty),
     JDict(TextGg), JDict(TextNoneLower), JDictNoComment}

\* member values met in replies of any length
CoreValues ==
    {JStr(TextNiceBase), JStr(TextNoneLower), JStr(TextExcelSheet),
     JDict(TextGg)}

\* the member lists of up to n members over the given names and values
Members(keys, values, n) ==
    UNION {[1..k -> [key : keys, value : values]] : k \in 0..n}

ObjectReply(members) == [syntax |-> "object", members |-> members, text |-> <<>>]
ArrayReply == [syntax |-> "array", members |-> <<>>, text |-> <<>>]
TextReply(s) == [syntax |-> "text", members |-> <<>>, text |-> s]

\* raw_response values of SpecFilter
FilterReplies ==
    {ObjectReply(m) : m \in Members(ReplyKeys, CoreValues, MaxEntries)
                            \cup Members(ReplyKeys, AllValues, 1)}
    \cup {ArrayReply}
    \cup {TextReply(s) : s \in {TextPlain, TextNoneReport, TextExcelSheet,
                                TextBlank, TextEmpty, TextErrorReply}}

\* raw_response values of SpecQueue: a reply for two personas, each with
\* a comment or "none", or a reply that is no JSON
QueueReplies ==
    {ObjectReply(<<[key |-> "listener", value |-> v1],
                   [key |-> "safety", value |-> v2]>>) :
         v1 \in {JStr(TextNiceBase), JStr(TextNoneLower)},
         v2 \in {JStr(TextGoodJa), JStr(TextNoneLower)}}
    \cup {TextReply(TextPlain), TextReply(TextErrorReply)}

\* expected_persona_ids: the ids of selected_personas; empty when
\* select_count is 0 (and None when there is no persona manager)
ExpectedChoices ==
    {<<"listener", "safety", "expert">>, <<"fan1", "fan2">>, <<>>}

\* an item queued by an earlier cycle
EarlierItem ==
    [handle |-> DefaultPersonas["fan2"].handle,
     persona |-> DefaultPersonas["fan2"].name,
     comment |-> TextGg]

-----------------------------------------------------------------------------
(* Part III: the log file *)

\* the document written when the log file does not exist
EmptyLog ==
    <<"<", "?", "x", "m", "l", " ", "v", "e", "r", "s", "i", "o", "n", "=",
      "\"", "1", ".", "0", "\"", " ", "e", "n", "c", "o", "d", "i", "n",
      "g", "=", "\"", "u", "t", "f", "-", "8", "\"", "?", ">", "\n", "<",
      "l", "o", "g", ">", "\n", "<", "/", "l", "o", "g", ">">>

\* the closing tag of the root element
CloseLog ==
    <<"<", "/", "l", "o", "g", ">">>

\* the pieces of the comment_xml f-string
CommentXmlOpen ==
    <<" ", " ", "<", "c", "o", "m", "m", "e", "n", "t", " ", "n", "o", "=",
      "\"", "0", "\"", " ", "t", "i", "m", "e", "=", "\"">>

CommentXmlMiddle ==
    <<"\"", " ", "o", "w", "n", "e", "r", "=", "\"", "0", "\"", " ", "s",
      "e", "r", "v", "i", "c", "e", "=", "\"", "y", "o", "u", "t", "u", "b",
      "e", "l", "i", "v", "e", "\"", " ", "h", "a", "n", "d", "l", "e", "=",
      "\"">>

CommentXmlBeforeText ==
    <<"\"", ">">>

CommentXmlClose ==
    <<"<", "/", "c", "o", "m", "m", "e", "n", "t", ">">>

\* the characters of the count pattern after the digits
CountWord ==
    <<"u6587", "u5b57">>

\* the decimal digits, and the digits [0-9] and U+FF10..U+FF19 of the
\* count pattern
DecimalDigits == <<"0", "1", "2", "3", "4", "5", "6", "7", "8", "9">>
CountDigits ==
    {DecimalDigits[i] : i \in DOMAIN DecimalDigits}
    \cup {"uff10", "uff11", "uff12", "uff13", "uff14", "uff15", "uff16",
          "uff17", "uff18", "uff19"}

\* f'{unix_time}' for unix_time >= 0
RECURSIVE IntToStr(_)
IntToStr(n) ==
    IF n < 10 THEN <<DecimalDigits[n + 1]>>
    ELSE IntToStr(n \div 10) \o <<DecimalDigits[(n % 10) + 1]>>

\* `sub` occurs in s at index i
MatchesAt(s, i, sub) ==
    /\ i + Len(sub) - 1 <= Len(s)
    /\ \A j \in 1..Len(sub) : s[i + j - 1] = sub[j]

\* str.replace(old, new) from index i on: every occurrence, left to right
RECURSIVE ReplaceFrom(_, _, _, _)
ReplaceFrom(s, i, old, new) ==
    LET hits == {j \in i..Len(s) : MatchesAt(s, j, old)}
    IN  IF hits = {} THEN SubSeq(s, i, Len(s))
        ELSE LET j == CHOOSE h \in hits : \A g \in hits : h <= g
             IN  SubSeq(s, i, j - 1) \o new
                     \o ReplaceFrom(s, j + Len(old), old, new)

\* content.replace(old, new)
ReplaceAll(s, old, new) == ReplaceFrom(s, 1, old, new)

\* re.sub(open [0-9...]+ CountWord close $, '', comment): `$` matches at the
\* end and before a newline that ends the string
RemoveCount(s, open, close) ==
    LET ends == {e \in DOMAIN s :
                    /\ e = Len(s) \/ (e = Len(s) - 1 /\ s[Len(s)] = "\n")
                    /\ s[e] = close
                    /\ e > Len(CountWord)
                    /\ MatchesAt(s, e - Len(CountWord), CountWord)}
        starts(e) == {b \in 1..(e - Len(CountWord) - 2) :
                        /\ s[b] = open
                        /\ \A j \in (b + 1)..(e - Len(CountWord) - 1) :
                               s[j] \in CountDigits}
    IN  IF \E e \in ends : starts(e) # {}
        THEN LET e == CHOOSE x \in ends : starts(x) # {}
                 b == CHOOSE x \in starts(e) : TRUE
             IN  SubSeq(s, 1, b - 1) \o SubSeq(s, e + 1, Len(s))
        ELSE s

\* remove_character_count without its last line
RemoveCharacterCountUnstripped(comment) ==
    RemoveCount(RemoveCount(comment, "(", ")"), "uff08", "uff09")

\* remove_character_count(comment)
RemoveCharacterCount(comment) ==
    IF comment = <<>> THEN comment
    ELSE Strip(RemoveCount(RemoveCount(comment, "(", ")"), "uff08", "uff09"))

\* a time that is not read from the clock
EpochZero(now) == 0

\* int(time.time())
UnixTime(now) == now

\* comment_xml
CommentXml(unix_time, handle, comment_cleaned) ==
    CommentXmlOpen \o IntToStr(unix_time) \o CommentXmlMiddle \o handle
        \o CommentXmlBeforeText \o comment_cleaned \o CommentXmlClose

\* the file after a call of _write_single_comment_to_xml in which nothing
\* raised
WrittenFile(file, item, now) ==
    LET content == IF IsNone(file) THEN EmptyLog ELSE Val(file)
        comment_xml == CommentXml(UnixTime(now), item.handle,
                                  RemoveCharacterCount(item.comment))
    IN  Some(ReplaceAll(content, CloseLog,
                        comment_xml \o <<"\n">> \o CloseLog))

\* the file after a call in which something raised: before the rewrite
\* (the file as it was, or just created), or in the rewrite after
\* open(..., 'w') has emptied the file
FailedFiles(file) ==
    {IF IsNone(file) THEN Some(EmptyLog) ELSE file, file, Some(<<>>)}

-----------------------------------------------------------------------------
(* Part VI: the HTTP clients (RemoteVoiceRecognizer, the model client) *)

\* the exceptions requests raises for a failed transport
TransportFaults == {"ConnectionError", "Timeout", "RequestException"}

\* the status codes of the replies
StatusCodes == {200, 500}

\* the body of a reply: JSON with the member the caller reads, JSON
\* without it, or text that is not JSON
Bodies == {"json", "nokey", "text"}

\* the public operations of RemoteVoiceRecognizer and of the model client
RemoteOperations ==
    {"get_status", "start_recording", "stop_recording", "get_recent_texts",
     "clear_texts", "get_and_clear_recent_texts", "get_devices",
     "is_available"}
ModelOperations ==
    {"send_image_analysis_to_ollama", "send_comment_generation_to_ollama"}

\* self._connection_check_interval
ConnectionCheckInterval == 30

\* values of self._last_connection_check and of time.time() in
\* is_available: never checked or checked at 100; less than the interval
\* or the interval after 100
CheckTimes == {0, 100}
NowTimes == {100 + ConnectionCheckInterval - 1, 100 + ConnectionCheckInterval}

\* how a call ends: it raises `kind`, or it returns a bool, a list, a dict
\* or a str
Raises(exception) ==
    [raised |-> TRUE, kind |-> exception, flag |-> FALSE, str |-> <<>>]
ReturnsBool(b) ==
    [raised |-> FALSE, kind |-> "bool", flag |-> b, str |-> <<>>]
ReturnsList(items) ==
    [raised |-> FALSE, kind |-> "list", flag |-> FALSE, str |-> items]
ReturnsDict ==
    [raised |-> FALSE, kind |-> "dict", flag |-> FALSE, str |-> <<>>]
ReturnsStr(s) ==
    [raised |-> FALSE, kind |-> "str", flag |-> FALSE, str |-> s]
NotCalled ==
    [raised |-> FALSE, kind |-> "none", flag |-> FALSE, str |-> <<>>]

\* the list in the member 'texts' or 'devices' of a reply
ReplyItems == <<"a">>

\* the text in the member 'response' of a reply of the image model
TextAnalysis == <<" ", "a", " ">>

\* the strings the model client returns for a failed call; the text of the
\* exception that ends the last four is left out
OllamaConnectError ==
    <<"u30a8", "u30e9", "u30fc", ":", " ", "O", "l", "l", "a", "m", "a",
      "u30b5", "u30fc", "u30d0", "u30fc", "u306b", "u63a5", "u7d9a",
      "u3067", "u304d", "u307e", "u305b", "u3093", "u3002">>
ImageTimeoutError ==
    <<"u30a8", "u30e9", "u30fc", ":", " ", "u753b", "u50cf", "u89e3",
      "u6790", "u30ea", "u30af", "u30a8", "u30b9", "u30c8", "u304c",
      "u30bf", "u30a4", "u30e0", "u30a2", "u30a6", "u30c8", "u3057",
      "u307e", "u3057", "u305f", "u3002">>
ImageRequestError ==
    <<"u30a8", "u30e9", "u30fc", ":", " ", "u753b", "u50cf", "u89e3",
      "u6790", "A", "P", "I", "u547c", "u3073", "u51fa", "u3057", "u306b",
      "u5931", "u6557", "u3057", "u307e", "u3057", "u305f", ":", " ">>
ImageUnexpectedError ==
    <<"u30a8", "u30e9", "u30fc", ":", " ", "u753b", "u50cf", "u89e3",
      "u6790", "u4e2d", "u306b", "u4e88", "u671f", "u3057", "u306a",
      "u3044", "u30a8", "u30e9", "u30fc", "u304c", "u767a", "u751f",
      "u3057", "u307e", "u3057", "u305f", ":", " ">>
CommentTimeoutError ==
    <<"u30a8", "u30e9", "u30fc", ":", " ", "u30b3", "u30e1", "u30f3",
      "u30c8", "u751f", "u6210", "u30ea", "u30af", "u30a8", "u30b9",
      "u30c8", "u304c", "u30bf", "u30a4", "u30e0", "u30a2", "u30a6",
      "u30c8", "u3057", "u307e", "u3057", "u305f", "u3002">>
CommentRequestError ==
    <<"u30a8", "u30e9", "u30fc", ":", " ", "u30b3", "u30e1", "u30f3",
      "u30c8", "u751f", "u6210", "A", "P", "I", "u547c", "u3073", "u51fa",
      "u3057", "u306b", "u5931", "u6557", "u3057", "u307e", "u3057",
      "u305f", ":", " ">>
CommentUnexpectedError ==
    <<"u30a8", "u30e9", "u30fc", ":", " ", "u30b3", "u30e1", "u30f3",
      "u30c8", "u751f", "u6210", "u4e2d", "u306b", "u4e88", "u671f",
      "u3057", "u306a", "u3044", "u30a8", "u30e9", "u30fc", "u304c",
      "u767a", "u751f", "u3057", "u307e", "u3057", "u305f", ":", " ">>

\* what the try block of an operation ends with: the transport fault,
\* HTTPError from raise_for_status, the error of response.json() or of the
\* member access, or nothing
TryOutcome(fault, status, body, checks_status, reads_member) ==
    IF fault # "none" THEN fault
    ELSE IF checks_status /\ status # 200 THEN "HTTPError"
    ELSE IF body = "text" THEN "JSONDecodeError"
    ELSE IF reads_member /\ body = "nokey" THEN "KeyError"
    ELSE "none"

\* get_status: _handle_request_error prints, then the exception is raised
\* again
GetStatus(fault, status, body) ==
    LET e == TryOutcome(fault, status, body, TRUE, FALSE)
    IN  IF e # "none" THEN Raises(e) ELSE ReturnsDict

\* start_recording, stop_recording, clear_texts
PostSucceeded(fault, status) ==
    IF fault # "none" THEN ReturnsBool(FALSE)
    ELSE ReturnsBool(status = 200)

\* an operation that lets the exception of its request out
ListOrRaise(fault, status, body) ==
    LET e == TryOutcome(fault, status, body, TRUE, TRUE)
    IN  IF e # "none" THEN Raises(e) ELSE ReturnsList(ReplyItems)

\* get_recent_texts, get_and_clear_recent_texts, get_devices
ListOrEmpty(fault, status, body) ==
    IF TryOutcome(fault, status, body, TRUE, TRUE) # "none"
    THEN ReturnsList(<<>>)
    ELSE ReturnsList(ReplyItems)

\* is_available takes the short check
CheckedLately(now, last) == now - last < ConnectionCheckInterval

\* is_available
IsAvailable(fault, status, body, now, last) ==
    IF CheckedLately(now, last)
    THEN IF fault # "none" THEN ReturnsBool(FALSE)
         ELSE ReturnsBool(status = 200)
    ELSE ReturnsBool(~GetStatus(fault, status, body).raised)

\* the except clauses of the model client, in source order; HTTPError and
\* the JSONDecodeError of requests are RequestException
ModelClientError(e, connect, timeout, request, unexpected) ==
    IF e = "ConnectionError" THEN connect
    ELSE IF e = "Timeout" THEN timeout
    ELSE IF e \in {"RequestException", "HTTPError", "JSONDecodeError"}
         THEN request
    ELSE unexpected

\* send_image_analysis_to_ollama: result.get("response", "") of a reply
\* without the member is ""
SendImageAnalysis(fault, status, body) ==
    LET e == TryOutcome(fault, status, body, TRUE, FALSE)
    IN  IF e # "none"
        THEN ReturnsStr(ModelClientError(e, OllamaConnectError,
                 ImageTimeoutError, ImageRequestError, ImageUnexpectedError))
        ELSE ReturnsStr(Strip(IF body = "json" THEN TextAnalysis ELSE <<>>))

\* send_comment_generation_to_ollama up to parse_json_response; without a
\* persona manager enhanced_prompt is not bound and the NameError is
\* caught before the request is sent
SendCommentGeneration(fault, status, body, manager, reply, expected) ==
    LET e == IF ~manager THEN "NameError"
             ELSE TryOutcome(fault, status, body, TRUE, FALSE)
    IN  IF e # "none"
        THEN StrResponse(ModelClientError(e, OllamaConnectError,
                 CommentTimeoutError, CommentRequestError,
                 CommentUnexpectedError))
        ELSE ParseJsonResponse(IF body = "json" THEN reply ELSE TextReply(<<>>),
                               expected)

\* no call of an HTTP client under way
HttpIdle ==
    /\ hpc = "idle"
    /\ http_op = "none"
    /\ http_fault = "none"
    /\ http_status = 200
    /\ http_body = "json"
    /\ http_result = NotCalled
    /\ last_connection_check = 0
    /\ current_time = 0

-----------------------------------------------------------------------------
(* Part VIII: the pacing of the output worker *)

\* a number of seconds given by its first decimal, in tenths of a second
Tenths(units, tenth) == 10 * units + tenth

\* the arguments of random.uniform with the ranges of the two deepest
\* tiers exchanged
WaitRangeExchanged(size) ==
    IF size = 0 THEN <<Tenths(1, 0), Tenths(2, 0)>>
    ELSE IF size <= 5 THEN <<Tenths(0, 8), Tenths(5, 0)>>
    ELSE IF size <= 10 THEN <<Tenths(0, 3), Tenths(1, 0)>>
    ELSE <<Tenths(0, 5), Tenths(3, 5)>>

\* the arguments of random.uniform with no wait above ten elements
WaitRangeUnpaced(size) ==
    IF size = 0 THEN <<Tenths(1, 0), Tenths(2, 0)>>
    ELSE IF size <= 5 THEN <<Tenths(0, 8), Tenths(5, 0)>>
    ELSE IF size <= 10 THEN <<Tenths(0, 5), Tenths(3, 5)>>
    ELSE <<0, 0>>

\* the arguments of random.uniform for a queue of `size` elements
WaitRange(size) ==
    IF size = 0 THEN <<Tenths(1, 0), Tenths(2, 0)>>
    ELSE IF size <= 5 THEN <<Tenths(0, 8), Tenths(5, 0)>>
    ELSE IF size <= 10 THEN <<Tenths(0, 5), Tenths(3, 5)>>
    ELSE <<Tenths(0, 3), Tenths(1, 0)>>

\* values random.uniform(a, b) is given here: the two ends and the middle
Uniform(range) == {range[1], (range[1] + range[2]) \div 2, range[2]}

-----------------------------------------------------------------------------
(* Part IX: capture and chunking *)

\* processing threads started in one behaviour
MaxStarts == 2

\* calls of audio_callback in one behaviour
MaxFrames == 3

\* the processing threads, in the order they are started
ProcIds == 1..MaxStarts

\* self.sample_rate, with one sample for every 16000 of the source
SampleRate == 1

\* self.chunk_duration
ChunkDuration == 3

\* self.chunk_size
ChunkSize == SampleRate * ChunkDuration

\* frame_count of a callback: short frames, a frame of one chunk, and a
\* frame longer than a chunk
FrameSizes == {1, ChunkSize, ChunkSize + 1}

\* maxsize of queue.Queue(): 0, which stands for no limit
AudioMaxsize == 0

\* Queue.full()
QueueFull(q) == AudioMaxsize > 0 /\ Len(q) >= AudioMaxsize

\* the frame of `size` samples that starts with sample `first`
Frame(first, size) == [i \in 1..size |-> first + i - 1]

\* audio_callback: put_nowait, and on queue.Full get_nowait and
\* put_nowait again
AfterCallback(q, frame) ==
    IF QueueFull(q) THEN Append(Tail(q), frame) ELSE Append(q, frame)

\* audio_buffer[:self.chunk_size]
ProcessData(buffer) == SubSeq(buffer, 1, ChunkSize)

\* a loop that keeps nothing after a slice
NothingKept(buffer) == <<>>

\* audio_buffer[self.chunk_size:]
Remainder(buffer) == SubSeq(buffer, ChunkSize + 1, Len(buffer))

\* no stream opened, no processing thread started
CaptureIdle ==
    /\ audio_queue = <<>>
    /\ frames_captured = 0
    /\ next_sample = 1
    /\ started = 0
    /\ kpc = [t \in ProcIds |-> "unborn"]
    /\ audio_buffer = [t \in ProcIds |-> <<>>]
    /\ chunks = [t \in ProcIds |-> <<>>]
    /\ pulled = [t \in ProcIds |-> <<>>]
    /\ dropped = 0

-----------------------------------------------------------------------------
(* Part X: starts and stops of the output thread *)

\* output threads created in one behaviour
MaxWorkers == 2

\* calls of start_xml_output_thread and stop_xml_output_thread in one
\* behaviour
MaxCalls == 4

\* comments put on the queue in one behaviour
MaxPuts == 2

\* the output threads, in the order they are created
WorkerIds == 1..MaxWorkers

\* Thread.is_alive(): started and not yet returned
IsAlive(place) == place \notin {"not_started", "w_exit"}

\* a start that creates a thread whatever became of the last one
StartsThreadAlways(thread, places) == TRUE

\* start_xml_output_thread: `self.xml_output_thread is None or not
\* self.xml_output_thread.is_alive()`
StartsThread(thread, places) == thread = 0 \/ ~IsAlive(places[thread])

\* stop_xml_output_thread: `self.xml_output_thread and
\* self.xml_output_thread.is_alive()`
StopsThread(thread, places) == thread # 0 /\ IsAlive(places[thread])

\* a loop that never looks at the flag
LoopIgnoresFlag(running) == TRUE

\* _xml_output_worker: `while self.xml_thread_running:`
LoopGoesOn(running) == running

\* no output thread created, no call made
LifeIdle ==
    /\ xml_output_thread = 0
    /\ tpc = [t \in WorkerIds |-> "not_started"]
    /\ thread_item = [t \in WorkerIds |-> None]
    /\ lpc = "idle"
    /\ calls = <<>>
    /\ puts = 0
    /\ thread_writes = <<>>
    /\ stop_marks = <<>>

-----------------------------------------------------------------------------
(* Part IV: the selection of personas *)

\* ids that exclude lists may hold: the registry's, and one that is not
\* in the registry
UnknownPersona == "guest"
ExcludableIds == DOMAIN DefaultPersonas \cup {UnknownPersona}

\* the largest count asked for
MaxCount == 6

\* a Persona of the registry
PersonaOf(persona_id) ==
    [persona_id |-> persona_id,
     name |-> DefaultPersonas[persona_id].name,
     handle |-> DefaultPersonas[persona_id].handle]

\* exclude = exclude or []
ExcludeOrEmpty(exclude) == IF IsNone(exclude) THEN {} ELSE Val(exclude)

\* available_personas: the keys of the registry not in exclude
AvailablePersonas(exclude) ==
    {k \in DOMAIN DefaultPersonas : k \notin ExcludeOrEmpty(exclude)}

\* a count that is passed on as it is
Unclamped(count, available) == count

\* `if len(available_personas) < count: count = len(available_personas)`
ClampCount(count, available) ==
    IF Cardinality(available) < count THEN Cardinality(available)
    ELSE count

\* random.sample(population, k) raises ValueError for k < 0 and for k
\* larger than the population
SampleRaises(population, k) == k < 0 \/ k > Cardinality(population)

\* the lists random.sample(population, k) can return: k different
\* elements in any order
RandomSample(population, k) ==
    {s \in [1..k -> population] : \A i, j \in 1..k : i # j => s[i] # s[j]}

\* no call of get_random_personas
PersonaIdle ==
    /\ ppc = "idle"
    /\ sample_count = 0
    /\ sample_exclude = None
    /\ selected = <<>>
    /\ sample_raised = FALSE

\* no call of remove_character_count
CountIdle ==
    /\ cpc = "idle"
    /\ count_comment = <<>>
    /\ count_once = <<>>
    /\ count_twice = <<>>

\* no call of a single function
\* the default of the argument `interval`
DefaultInterval == 1

\* no analysis cycle has called a model
CycleIdle ==
    /\ image_analysis = <<>>
    /\ cycle_fault = "none"
    /\ interval = DefaultInterval

\* the worker has not slept yet
PaceIdle ==
    /\ queue_size = 0
    /\ wait_time = 0
    /\ paced_writes = 0

CallsIdle ==
    PersonaIdle /\ CountIdle /\ HttpIdle /\ CycleIdle /\ PaceIdle
        /\ CaptureIdle
        /\ LifeIdle

\* get_random_personas(count, exclude)
GetRandomPersonas ==
    /\ ppc = "call"
    /\ LET available_personas == AvailablePersonas(sample_exclude)
           count == ClampCount(sample_count, available_personas)
       IN  IF SampleRaises(available_personas, count)
           THEN /\ sample_raised' = TRUE
                /\ selected' = <<>>
           ELSE /\ sample_raised' = FALSE
                /\ \E selected_ids \in RandomSample(available_personas, count) :
                       selected' = [i \in DOMAIN selected_ids |->
                                        PersonaOf(selected_ids[i])]
    /\ ppc' = "done"
    /\ UNCHANGED <<sample_count, sample_exclude>>
    /\ UNCHANGED <<bufferVars, queueVars, logVars, runVars, countVars,
                   httpVars, cycleVars, paceVars, captureVars,
                   lifeVars>>

PersonaNext == GetRandomPersonas

-----------------------------------------------------------------------------
(* Part V: calls of remove_character_count *)

\* pieces a comment is put together from: a letter, a blank, a line feed,
\* a count in ASCII and in full-width parentheses, and parentheses with
\* the count word but no digit
CountPieces ==
    {<<"g">>, <<" ">>, <<"\n">>,
     <<"(", "2", "u6587", "u5b57", ")">>,
     <<"uff08", "uff11", "uff12", "u6587", "u5b57", "uff09">>,
     <<"(", "u6587", "u5b57", ")">>}

\* pieces in one comment
MaxPieces == 3

\* the pieces of a list, joined
RECURSIVE JoinPieces(_)
JoinPieces(pieces) ==
    IF pieces = <<>> THEN <<>>
    ELSE Head(pieces) \o JoinPieces(Tail(pieces))

\* the comments handed to remove_character_count in SpecCount
CountComments ==
    {JoinPieces(p) : p \in UNION {[1..k -> CountPieces] : k \in 0..MaxPieces}}

-----------------------------------------------------------------------------
(* Part III: the runs of the log writer *)

\* calls of _write_single_comment_to_xml in one run of SpecLog
MaxWrites == 2

\* the items handed to _write_single_comment_to_xml in SpecLog
LogItems ==
    {[handle |-> DefaultPersonas["listener"].handle,
      persona |-> DefaultPersonas["listener"].name,
      comment |-> t] :
         t \in {TextGg, TextCounted, TextCountedWide, TextCloseTag,
                TextAmpersand}}

\* the history kept for a queued element: the cycle and the turn of the
\* put loop that put it, and the clock at the put
PutTag(cycle, index, now) == [cycle |-> cycle, index |-> index, time |-> now]

\* no log file yet, nothing written
LogIdle ==
    /\ xml_file = None
    /\ comment_counter = 0
    /\ write_log = <<>>

\* no worker, no recognizer, no shutdown under way
RunQuiet ==
    /\ xml_thread_running = FALSE
    /\ voice_kind = "none"
    /\ is_processing = FALSE
    /\ is_recording = FALSE
    /\ remote_stop_calls = 0
    /\ item_tag = None
    /\ acked = <<>>
    /\ backoff_due = FALSE
    /\ exit_cause = "none"
    /\ stop_events = <<>>

RunIdle ==
    /\ RunQuiet
    /\ unfinished_tasks = 0
    /\ queue_tag = <<>>

-----------------------------------------------------------------------------
(* Part II: the analysis loop and the output worker *)

\* the variables with nothing queued and no reply under way
QueueIdle ==
    /\ persona_manager = TRUE
    /\ comment_queue = <<>>
    /\ apc = "start"
    /\ cycles = 0
    /\ raw_response = TextReply(<<>>)
    /\ expected_persona_ids = <<>>
    /\ response = StrResponse(<<>>)
    /\ valid_comments = <<>>
    /\ last_log = "nothing"
    /\ wpc = "not_started"
    /\ comment_item = None
    /\ enqueued = <<>>
    /\ queue_before = <<>>
    /\ queue_batch = <<>>
    /\ last_batch_dequeued = 0

\* parse_json_response and add_comments_to_queue applied to one reply,
\* with or without a persona manager, on an empty or a non-empty queue
FilterInit ==
    /\ BufferInit
    /\ CallsIdle
    /\ persona_manager \in BOOLEAN
    /\ expected_persona_ids \in
           (IF persona_manager THEN ExpectedChoices ELSE {<<>>})
    /\ raw_response \in FilterReplies
    /\ comment_queue \in {<<>>, <<Some(EarlierItem)>>}
    /\ queue_batch = [i \in DOMAIN comment_queue |-> 0]
    /\ queue_before = comment_queue
    /\ apc = "parse"
    /\ cycles = 1
    /\ cycle_limit = 1
    /\ response = StrResponse(<<>>)
    /\ valid_comments = <<>>
    /\ last_log = "nothing"
    /\ wpc = "not_started"
    /\ comment_item = None
    /\ enqueued = <<>>
    /\ last_batch_dequeued = 0
    /\ LogIdle
    /\ RunQuiet
    /\ unfinished_tasks = Len(comment_queue)
    /\ queue_tag = [i \in DOMAIN comment_queue |-> PutTag(0, i, 0)]

\* member names and values of the replies of SpecLegacy: the older keys,
\* their current names, a persona, a name that is no persona; texts,
\* nested comments, and values that are neither
LegacyKeys == {"safety_monitor", "game_expert", "safety", "listener", "foo"}
LegacyValues ==
    {JStr(TextNiceBase), JDict(TextGg), JDictNoComment, JNumber, JNull}

\* raw_response values of SpecLegacy
LegacyReplies ==
    {ObjectReply(m) : m \in Members(LegacyKeys, LegacyValues, MaxEntries)}
    \cup {ArrayReply, TextReply(TextPlain)}

\* parse_json_response and add_comments_to_queue applied to one reply
\* that may hold older keys and values of any type
LegacyInit ==
    /\ BufferInit
    /\ CallsIdle
    /\ persona_manager \in BOOLEAN
    /\ expected_persona_ids \in
           (IF persona_manager
            THEN {<<"listener", "safety", "expert">>, <<>>} ELSE {<<>>})
    /\ raw_response \in LegacyReplies
    /\ comment_queue = <<>>
    /\ queue_batch = <<>>
    /\ queue_before = <<>>
    /\ apc = "parse"
    /\ cycles = 1
    /\ cycle_limit = 1
    /\ response = StrResponse(<<>>)
    /\ valid_comments = <<>>
    /\ last_log = "nothing"
    /\ wpc = "not_started"
    /\ comment_item = None
    /\ enqueued = <<>>
    /\ last_batch_dequeued = 0
    /\ LogIdle
    /\ RunIdle

\* run_continuous_analysis before its first cycle
QueueInit ==
    BufferInit /\ QueueIdle /\ LogIdle /\ RunIdle /\ CallsIdle
        /\ cycle_limit = MaxCycles

\* the same, for a shorter run
ShortInit ==
    BufferInit /\ QueueIdle /\ LogIdle /\ RunIdle /\ CallsIdle
        /\ cycle_limit = MaxRunCycles

\* direct calls of _write_single_comment_to_xml, the log file absent or
\* the empty document
LogInit ==
    /\ BufferInit
    /\ CallsIdle
    /\ QueueIdle
    /\ RunIdle
    /\ cycle_limit = 0
    /\ xml_file \in {None, Some(EmptyLog)}
    /\ comment_counter = 0
    /\ write_log = <<>>

\* a call of get_random_personas(count, exclude) about to run
PersonaInit ==
    /\ BufferInit
    /\ QueueIdle
    /\ LogIdle
    /\ RunIdle
    /\ cycle_limit = 0
    /\ CountIdle
    /\ HttpIdle
    /\ CycleIdle
    /\ PaceIdle
    /\ CaptureIdle
    /\ LifeIdle
    /\ ppc = "call"
    /\ sample_count \in 0..MaxCount
    /\ sample_exclude \in {None} \cup {Some(x) : x \in SUBSET ExcludableIds}
    /\ selected = <<>>
    /\ sample_raised = FALSE

\* a call of remove_character_count(comment) about to run
CountInit ==
    /\ BufferInit
    /\ QueueIdle
    /\ LogIdle
    /\ RunIdle
    /\ PersonaIdle
    /\ HttpIdle
    /\ CycleIdle
    /\ PaceIdle
    /\ CaptureIdle
    /\ LifeIdle
    /\ cycle_limit = 0
    /\ cpc = "call"
    /\ count_comment \in CountComments
    /\ count_once = <<>>
    /\ count_twice = <<>>

\* remove_character_count(comment)
CountCall ==
    /\ cpc = "call"
    /\ count_once' = RemoveCharacterCount(count_comment)
    /\ cpc' = "once"
    /\ UNCHANGED <<count_comment, count_twice>>
    /\ UNCHANGED <<bufferVars, queueVars, logVars, runVars, personaVars,
                   httpVars, cycleVars, paceVars, captureVars,
                   lifeVars>>

\* remove_character_count applied to what the first call returned
CountAgain ==
    /\ cpc = "once"
    /\ count_twice' = RemoveCharacterCount(count_once)
    /\ cpc' = "twice"
    /\ UNCHANGED <<count_comment, count_once>>
    /\ UNCHANGED <<bufferVars, queueVars, logVars, runVars, personaVars,
                   httpVars, cycleVars, paceVars, captureVars,
                   lifeVars>>

CountNext ==
    \/ CountCall
    \/ CountAgain

\* one public operation of an HTTP client about to be called
HttpInit ==
    /\ BufferInit
    /\ QueueIdle
    /\ LogIdle
    /\ RunIdle
    /\ PersonaIdle
    /\ CountIdle
    /\ CycleIdle
    /\ PaceIdle
    /\ CaptureIdle
    /\ LifeIdle
    /\ cycle_limit = 0
    /\ hpc = "call"
    /\ http_op \in RemoteOperations \cup ModelOperations
    /\ http_fault = "none"
    /\ http_status = 200
    /\ http_body = "json"
    /\ http_result = NotCalled
    /\ last_connection_check \in CheckTimes
    /\ current_time \in NowTimes

\* the call of `op` with the request failing with `fault` or answered
\* with `status` and `body`, and `result` what the operation ends with
HttpCall(op, fault, status, body, result) ==
    /\ hpc = "call"
    /\ http_op = op
    /\ hpc' = "done"
    /\ http_fault' = fault
    /\ http_status' = status
    /\ http_body' = body
    /\ http_result' = result
    /\ UNCHANGED <<http_op, current_time>>
    /\ UNCHANGED <<bufferVars, queueVars, logVars, runVars, personaVars,
                   countVars, cycleVars, paceVars, captureVars,
                   lifeVars>>

\* RemoteVoiceRecognizer.get_status
CallGetStatus ==
    \E f \in TransportFaults \cup {"none"}, st \in StatusCodes, b \in Bodies :
        /\ HttpCall("get_status", f, st, b, GetStatus(f, st, b))
        /\ UNCHANGED last_connection_check

\* RemoteVoiceRecognizer.start_recording, stop_recording, clear_texts
CallPost ==
    \E op \in {"start_recording", "stop_recording", "clear_texts"},
       f \in TransportFaults \cup {"none"}, st \in StatusCodes, b \in Bodies :
        /\ HttpCall(op, f, st, b, PostSucceeded(f, st))
        /\ UNCHANGED last_connection_check

\* RemoteVoiceRecognizer.get_recent_texts, get_and_clear_recent_texts,
\* get_devices
CallList ==
    \E op \in {"get_recent_texts", "get_and_clear_recent_texts",
               "get_devices"},
       f \in TransportFaults \cup {"none"}, st \in StatusCodes, b \in Bodies :
        /\ HttpCall(op, f, st, b, ListOrEmpty(f, st, b))
        /\ UNCHANGED last_connection_check

\* RemoteVoiceRecognizer.is_available
CallIsAvailable ==
    \E f \in TransportFaults \cup {"none"}, st \in StatusCodes, b \in Bodies :
        /\ HttpCall("is_available", f, st, b,
                    IsAvailable(f, st, b, current_time,
                                last_connection_check))
        /\ last_connection_check' =
               IF CheckedLately(current_time, last_connection_check)
               THEN last_connection_check
               ELSE current_time

\* send_image_analysis_to_ollama
CallImageAnalysis ==
    \E f \in TransportFaults \cup {"none"}, st \in StatusCodes, b \in Bodies :
        /\ HttpCall("send_image_analysis_to_ollama", f, st, b,
                    SendImageAnalysis(f, st, b))
        /\ UNCHANGED last_connection_check

\* send_comment_generation_to_ollama, the model replying a plain text
CallCommentGeneration ==
    \E f \in TransportFaults \cup {"none"}, st \in StatusCodes, b \in Bodies,
       manager \in BOOLEAN :
        LET r == SendCommentGeneration(f, st, b, manager,
                                       TextReply(TextPlain), <<>>)
        IN  /\ HttpCall("send_comment_generation_to_ollama", f, st, b,
                        IF r.isdict THEN ReturnsDict ELSE ReturnsStr(r.str))
            /\ UNCHANGED last_connection_check

HttpNext ==
    \/ CallGetStatus
    \/ CallPost
    \/ CallList
    \/ CallIsAvailable
    \/ CallImageAnalysis
    \/ CallCommentGeneration

\* the recognizer of a run: none, the remote one, or the local one with
\* its recording started or failed to start
VoiceStates ==
    {[kind |-> "none", on |-> FALSE], [kind |-> "remote", on |-> FALSE],
     [kind |-> "local", on |-> TRUE], [kind |-> "local", on |-> FALSE]}

\* run_continuous_analysis before start_xml_output_thread
RunInit ==
    /\ BufferInit
    /\ CallsIdle
    /\ QueueIdle
    /\ LogIdle
    /\ cycle_limit = MaxRunCycles
    /\ \E v \in VoiceStates :
          /\ voice_kind = v.kind
          /\ is_processing = v.on
          /\ is_recording = v.on
    /\ xml_thread_running = FALSE
    /\ remote_stop_calls = 0
    /\ item_tag = None
    /\ acked = <<>>
    /\ backoff_due = FALSE
    /\ exit_cause = "none"
    /\ stop_events = <<>>
    /\ unfinished_tasks = 0
    /\ queue_tag = <<>>

\* start_xml_output_thread, called once before the loop
StartXmlOutputThread ==
    /\ apc = "start"
    /\ wpc = "not_started"
    /\ xml_thread_running' = TRUE
    /\ wpc' = "w_loop"
    /\ apc' = "sleep"
    /\ UNCHANGED <<bufferVars, callVars, logVars>>
    /\ UNCHANGED <<cycle_limit, persona_manager, comment_queue, cycles,
                   raw_response, expected_persona_ids,
                   response, valid_comments, last_log,
                   comment_item, enqueued, queue_before,
                   queue_batch, last_batch_dequeued>>
    /\ UNCHANGED <<unfinished_tasks, voice_kind,
                   is_processing, is_recording,
                   remote_stop_calls, queue_tag, item_tag,
                   acked, backoff_due, exit_cause, stop_events>>

\* send_comment_generation_to_ollama up to `raw_response = result.get(...)`:
\* personas are selected and the comment model replies
ReceiveReply ==
    /\ apc = "sleep"
    /\ cycles < cycle_limit
    /\ cycles' = cycles + 1
    /\ \E e \in ExpectedChoices \ {<<>>} : expected_persona_ids' = e
    /\ \E r \in QueueReplies : raw_response' = r
    /\ apc' = "parse"
    /\ UNCHANGED <<bufferVars, callVars, logVars, runVars>>
    /\ UNCHANGED <<cycle_limit, persona_manager, comment_queue, response, valid_comments,
                   last_log, wpc, comment_item, enqueued, queue_before,
                   queue_batch, last_batch_dequeued>>

\* a loop that hands every response to add_comments_to_queue
PassedOnAlways(resp) == TRUE

\* the test of the analysis loop on the response: a dict, or a str that
\* does not start with the error prefix, goes to add_comments_to_queue
PassedOn(resp) == resp.isdict \/ ~StartsWith(resp.str, ErrorPrefix)

\* the place of the analysis loop after time.sleep(interval): the sleep
\* before the next cycle; a negative interval makes time.sleep raise
\* ValueError, in the try block and again in the `except Exception`
\* clause, and that one leaves run_continuous_analysis
Slept == IF interval >= 0 THEN "sleep" ELSE "failed"

\* parse_json_response, and the test of the analysis loop on its result:
\* a str starting with the error prefix is not passed on
Normalize ==
    /\ apc = "parse"
    /\ response' = ParseJsonResponse(raw_response, expected_persona_ids)
    /\ apc' = IF PassedOn(response') THEN "filter" ELSE Slept
    /\ last_log' = "nothing"
    /\ UNCHANGED <<bufferVars, callVars, logVars, runVars>>
    /\ UNCHANGED <<cycle_limit, persona_manager, comment_queue, cycles, raw_response,
                   expected_persona_ids, valid_comments, wpc, comment_item,
                   enqueued, queue_before, queue_batch, last_batch_dequeued>>

\* add_comments_to_queue raises in its loop over the entries, before
\* anything is put
FilterRaises(data, info) ==
    data.isdict /\ \E i \in DOMAIN data.items : StripRaises(data.items[i], info)

\* add_comments_to_queue up to the first put: the entries are filtered and
\* the valid ones shuffled; with none valid the call logs why and returns;
\* an exception leaves the call and is caught by the analysis loop
AddCommentsToQueue ==
    /\ apc = "filter"
    /\ queue_before' = comment_queue
    /\ enqueued' = <<>>
    /\ LET info == PersonaInfo(persona_manager)
           valid == IF response.isdict
                    THEN ValidComments(response.items, info)
                    ELSE IF LegacyValid(response.str)
                         THEN <<LegacyItem(response.str)>>
                         ELSE <<>>
       IN  IF FilterRaises(response, info)
           THEN /\ valid_comments' = <<>>
                /\ last_log' = "raised"
                /\ apc' = Slept
           ELSE IF valid # <<>>
           THEN /\ valid_comments' \in Shuffles(valid)
                /\ last_log' = "queued"
                /\ apc' = "put"
           ELSE /\ valid_comments' = <<>>
                /\ last_log' =
                       IF ~response.isdict THEN "skipped_legacy"
                       ELSE IF FilteredCount(response.items, info) > 0
                            THEN "skipped_non_game"
                            ELSE "skipped_no_valid"
                /\ apc' = Slept
    /\ UNCHANGED <<bufferVars, callVars, logVars, runVars>>
    /\ UNCHANGED <<cycle_limit, persona_manager, comment_queue, cycles, raw_response,
                   expected_persona_ids, response, wpc, comment_item,
                   queue_batch, last_batch_dequeued>>

\* one turn of `for comment_item in valid_comments: self.comment_queue.put`
PutComment ==
    /\ apc = "put"
    /\ comment_queue' = QueuePut(comment_queue, Some(Head(valid_comments)))
    /\ unfinished_tasks' = unfinished_tasks + 1
    /\ queue_batch' = QueuePut(queue_batch, cycles)
    /\ queue_tag' = QueuePut(queue_tag,
                             PutTag(cycles, Len(enqueued) + 1, clock))
    /\ enqueued' = Append(enqueued, Head(valid_comments))
    /\ valid_comments' = Tail(valid_comments)
    /\ apc' = IF Tail(valid_comments) = <<>> THEN Slept ELSE "put"
    /\ UNCHANGED <<bufferVars, callVars, logVars>>
    /\ UNCHANGED <<cycle_limit, persona_manager, cycles, raw_response,
                   expected_persona_ids, response, last_log,
                   wpc, comment_item, queue_before,
                   last_batch_dequeued>>
    /\ UNCHANGED <<xml_thread_running, voice_kind,
                   is_processing, is_recording,
                   remote_stop_calls, item_tag, acked,
                   backoff_due, exit_cause, stop_events>>

\* _xml_output_worker: `while self.xml_thread_running:`
WorkerCheck ==
    /\ wpc = "w_loop"
    /\ wpc' = IF xml_thread_running THEN "w_wait" ELSE "w_exit"
    /\ exit_cause' = IF xml_thread_running THEN exit_cause ELSE "flag"
    /\ UNCHANGED <<bufferVars, callVars, logVars>>
    /\ UNCHANGED <<cycle_limit, persona_manager, comment_queue, apc,
                   cycles, raw_response, expected_persona_ids,
                   response, valid_comments, last_log,
                   comment_item, enqueued, queue_before,
                   queue_batch, last_batch_dequeued>>
    /\ UNCHANGED <<xml_thread_running, unfinished_tasks,
                   voice_kind, is_processing, is_recording,
                   remote_stop_calls, queue_tag, item_tag,
                   acked, backoff_due, stop_events>>

\* _xml_output_worker: something in the pacing part of the loop raised
\* (qsize, print, sleep) and the outer handler is entered
WorkerLoopError ==
    /\ wpc = "w_wait"
    /\ wpc' = "w_backoff"
    /\ UNCHANGED <<bufferVars, callVars, logVars, runVars>>
    /\ UNCHANGED <<cycle_limit, persona_manager, comment_queue, apc,
                   cycles, raw_response, expected_persona_ids,
                   response, valid_comments, last_log,
                   comment_item, enqueued, queue_before,
                   queue_batch, last_batch_dequeued>>

\* _xml_output_worker: the outer handler: print, time.sleep(1)
WorkerBackoff ==
    /\ wpc = "w_backoff"
    /\ wpc' = "w_loop"
    /\ backoff_due' = FALSE
    /\ UNCHANGED <<bufferVars, callVars, logVars>>
    /\ UNCHANGED <<cycle_limit, persona_manager, comment_queue, apc,
                   cycles, raw_response, expected_persona_ids,
                   response, valid_comments, last_log,
                   comment_item, enqueued, queue_before,
                   queue_batch, last_batch_dequeued>>
    /\ UNCHANGED <<xml_thread_running, unfinished_tasks,
                   voice_kind, is_processing, is_recording,
                   remote_stop_calls, queue_tag, item_tag,
                   acked, exit_cause, stop_events>>

\* _xml_output_worker: comment_queue.get timed out (queue.Empty): continue
WorkerEmpty ==
    /\ wpc = "w_wait"
    /\ comment_queue = <<>>
    /\ wpc' = "w_loop"
    /\ UNCHANGED <<bufferVars, callVars, logVars, runVars>>
    /\ UNCHANGED <<cycle_limit, persona_manager, comment_queue, apc,
                   cycles, raw_response, expected_persona_ids,
                   response, valid_comments, last_log,
                   comment_item, enqueued, queue_before,
                   queue_batch, last_batch_dequeued>>

\* a test that takes no element for the sentinel
NeverSentinel(element) == FALSE

\* `comment_item is None`
IsSentinel(element) == IsNone(element)

\* a get that leaves the element on the queue
QueueRestKept(q) == q

\* what comment_queue.get leaves on the queue
QueueRest(q) == Tail(q)

\* _xml_output_worker: comment_queue.get returned an element; None ends
\* the worker
WorkerGet ==
    /\ wpc = "w_wait"
    /\ comment_queue # <<>>
    /\ comment_queue' = QueueRest(comment_queue)
    /\ comment_item' = Head(comment_queue)
    /\ wpc' = IF IsSentinel(Head(comment_queue)) THEN "w_exit" ELSE "w_write"
    /\ exit_cause' = IF IsSentinel(Head(comment_queue)) THEN "sentinel"
                     ELSE exit_cause
    /\ queue_batch' = QueueRest(queue_batch)
    /\ last_batch_dequeued' = Head(queue_batch)
    /\ queue_tag' = QueueRest(queue_tag)
    /\ item_tag' = Some(Head(queue_tag))
    /\ UNCHANGED <<bufferVars, callVars, logVars>>
    /\ UNCHANGED <<cycle_limit, persona_manager, apc, cycles, raw_response,
                   expected_persona_ids, response,
                   valid_comments, last_log, enqueued,
                   queue_before>>
    /\ UNCHANGED <<xml_thread_running, unfinished_tasks,
                   voice_kind, is_processing, is_recording,
                   remote_stop_calls, acked, backoff_due,
                   stop_events>>

\* a counter of the calls of the log writer, failed ones too
CounterAfterAnyCall(counter, ok) == counter + 1

\* self.comment_counter after a call of _write_single_comment_to_xml:
\* `self.comment_counter += 1` is reached when nothing raised before it
CounterAfter(counter, ok) == IF ok THEN counter + 1 ELSE counter

\* the record kept of a call of _write_single_comment_to_xml
WriteRecord(element, tag, now, ok) ==
    [element |-> element, tag |-> tag, time |-> now, ok |-> ok]

\* a worker that a failed write ends
AfterWriteStopsOnFailure(ok) == IF ok THEN "w_loop" ELSE "w_exit"

\* where the worker goes after _write_single_comment_to_xml has returned
AfterWrite(ok) == "w_loop"

\* _write_single_comment_to_xml(comment_item) in which nothing raises,
\* then comment_queue.task_done()
WorkerWrite ==
    /\ wpc = "w_write"
    /\ ~IsNone(comment_item)
    /\ xml_file' = WrittenFile(xml_file, Val(comment_item), clock)
    /\ comment_counter' = CounterAfter(comment_counter, TRUE)
    /\ write_log' = Append(write_log,
                           WriteRecord(comment_item, item_tag, clock, TRUE))
    /\ wpc' = AfterWrite(TRUE)
    /\ unfinished_tasks' = unfinished_tasks - 1
    /\ acked' = Append(acked, item_tag)
    /\ comment_item' = None
    /\ item_tag' = None
    /\ UNCHANGED <<bufferVars, callVars>>
    /\ UNCHANGED <<cycle_limit, persona_manager, comment_queue, apc,
                   cycles, raw_response, expected_persona_ids,
                   response, valid_comments, last_log,
                   enqueued, queue_before, queue_batch,
                   last_batch_dequeued>>
    /\ UNCHANGED <<xml_thread_running, voice_kind,
                   is_processing, is_recording,
                   remote_stop_calls, queue_tag, backoff_due,
                   exit_cause, stop_events>>

\* _write_single_comment_to_xml(comment_item) in which something raises:
\* it is caught and printed there, and the worker goes on to
\* comment_queue.task_done()
WorkerWriteError ==
    /\ wpc = "w_write"
    /\ \E f \in FailedFiles(xml_file) : xml_file' = f
    /\ write_log' = Append(write_log,
                           WriteRecord(comment_item, item_tag, clock, FALSE))
    /\ backoff_due' = TRUE
    /\ wpc' = AfterWrite(FALSE)
    /\ unfinished_tasks' = unfinished_tasks - 1
    /\ acked' = Append(acked, item_tag)
    /\ comment_item' = None
    /\ item_tag' = None
    /\ UNCHANGED <<bufferVars, callVars>>
    /\ UNCHANGED <<cycle_limit, persona_manager, comment_queue, apc,
                   cycles, raw_response, expected_persona_ids,
                   response, valid_comments, last_log,
                   enqueued, queue_before, queue_batch,
                   last_batch_dequeued>>
    /\ comment_counter' = CounterAfter(comment_counter, FALSE)
    /\ UNCHANGED <<xml_thread_running, voice_kind,
                   is_processing, is_recording,
                   remote_stop_calls, queue_tag, exit_cause,
                   stop_events>>

\* a shutdown that begins with the output thread
XmlThreadFirst == "stop_xml"

\* where the shutdown begins after the loop: the recognizer
AfterLoop == "stop_voice"

\* KeyboardInterrupt in the try block of the analysis loop: break
Interrupt ==
    /\ apc \in {"sleep", "captured", "analysed", "parse", "filter", "put"}
    /\ apc' = AfterLoop
    /\ UNCHANGED <<bufferVars, callVars, logVars, runVars>>
    /\ UNCHANGED <<cycle_limit, persona_manager, comment_queue, cycles,
                   raw_response, expected_persona_ids,
                   response, valid_comments, last_log, wpc,
                   comment_item, enqueued, queue_before,
                   queue_batch, last_batch_dequeued>>

\* what get_active_window_screenshot and image_to_base64 give: an encoded
\* image, no screenshot, or no encoding
Captures == {"image", "no_screenshot", "no_encoding"}

\* the replies of the comment model in SpecCycle: a comment and a "none",
\* a text that is no JSON, and a text with the error prefix
CycleReplies ==
    {ObjectReply(<<[key |-> "listener", value |-> JStr(TextNiceBase)],
                   [key |-> "safety", value |-> JStr(TextNoneLower)]>>),
     TextReply(TextPlain), TextReply(TextErrorReply)}

\* the ids of the personas selected in SpecCycle
CycleExpected == <<"listener", "safety", "expert">>

\* values of the option --interval: a negative and a positive number
Intervals == {-1, 1}

\* the loop with a persona manager, before start_xml_output_thread
CycleInit ==
    /\ BufferInit
    /\ QueueIdle
    /\ LogIdle
    /\ RunIdle
    /\ PersonaIdle
    /\ CountIdle
    /\ HttpIdle
    /\ PaceIdle
    /\ CaptureIdle
    /\ LifeIdle
    /\ cycle_limit = MaxCycles
    /\ image_analysis = <<>>
    /\ cycle_fault = "none"
    /\ interval \in Intervals

\* the head of a cycle: the screenshot is taken and encoded; without one
\* the loop sleeps and starts over
CaptureScreenshot ==
    /\ apc = "sleep"
    /\ cycles < cycle_limit
    /\ cycles' = cycles + 1
    /\ \E c \in Captures : apc' = IF c = "image" THEN "captured" ELSE Slept
    /\ cycle_fault' = "none"
    /\ UNCHANGED <<bufferVars, personaVars, countVars, httpVars, logVars,
                   runVars, paceVars, captureVars, image_analysis, interval,
                   lifeVars>>
    /\ UNCHANGED <<cycle_limit, persona_manager, comment_queue, raw_response,
                   expected_persona_ids, response, valid_comments,
                   last_log, wpc, comment_item, enqueued, queue_before,
                   queue_batch, last_batch_dequeued>>

\* stage 1: send_image_analysis_to_ollama and the test on its result
ImageAnalysis ==
    /\ apc = "captured"
    /\ \E f \in TransportFaults \cup {"none"}, st \in StatusCodes,
          b \in Bodies :
          /\ image_analysis' = SendImageAnalysis(f, st, b).str
          /\ cycle_fault' = f
    /\ apc' = IF StartsWith(image_analysis', ErrorPrefix)
              THEN Slept ELSE "analysed"
    /\ UNCHANGED <<bufferVars, personaVars, countVars, httpVars, logVars,
                   runVars, paceVars, captureVars, interval,
                   lifeVars>>
    /\ UNCHANGED <<cycle_limit, persona_manager, comment_queue, cycles,
                   raw_response, expected_persona_ids, response,
                   valid_comments, last_log, wpc, comment_item, enqueued,
                   queue_before, queue_batch, last_batch_dequeued>>

\* stage 2: send_comment_generation_to_ollama and the test on its result
GenerateComments ==
    /\ apc = "analysed"
    /\ \E f \in TransportFaults \cup {"none"}, st \in StatusCodes,
          b \in Bodies, r \in CycleReplies, e \in {CycleExpected} :
          /\ cycle_fault' = f
          /\ expected_persona_ids' = e
          /\ raw_response' =
                 IF TryOutcome(f, st, b, TRUE, FALSE) # "none"
                 THEN raw_response
                 ELSE IF b = "json" THEN r ELSE TextReply(<<>>)
          /\ response' = SendCommentGeneration(f, st, b, persona_manager,
                                               r, e)
    /\ apc' = IF PassedOn(response') THEN "filter" ELSE Slept
    /\ last_log' = "nothing"
    /\ UNCHANGED <<bufferVars, personaVars, countVars, httpVars, logVars,
                   runVars, paceVars, captureVars, image_analysis, interval,
                   lifeVars>>
    /\ UNCHANGED <<cycle_limit, persona_manager, comment_queue, cycles,
                   valid_comments, wpc, comment_item, enqueued,
                   queue_before, queue_batch, last_batch_dequeued>>

\* an exception other than KeyboardInterrupt anywhere in the try block of
\* a cycle: printed, then the loop sleeps and goes on
CycleRaises ==
    /\ apc \in {"captured", "analysed", "filter", "put"}
    /\ apc' = Slept
    /\ valid_comments' = <<>>
    /\ last_log' = "raised"
    /\ UNCHANGED <<bufferVars, callVars, logVars, runVars>>
    /\ UNCHANGED <<cycle_limit, persona_manager, comment_queue, cycles,
                   raw_response, expected_persona_ids, response, wpc,
                   comment_item, enqueued, queue_before, queue_batch,
                   last_batch_dequeued>>

\* an exception in the try block of a cycle is caught by `except
\* Exception`, and KeyboardInterrupt arrives during the time.sleep(interval)
\* of that clause: no clause of the try statement catches it there, and it
\* leaves the loop and run_continuous_analysis
HandlerInterrupted ==
    /\ apc \in {"captured", "analysed", "filter", "put"}
    /\ interval >= 0
    /\ apc' = "interrupted"
    /\ valid_comments' = <<>>
    /\ last_log' = "raised"
    /\ UNCHANGED <<bufferVars, callVars, logVars, runVars>>
    /\ UNCHANGED <<cycle_limit, persona_manager, comment_queue, cycles,
                   raw_response, expected_persona_ids, response, wpc,
                   comment_item, enqueued, queue_before, queue_batch,
                   last_batch_dequeued>>

\* elements one call of add_comments_to_queue puts in SpecPace
MaxDepth == 12

\* the worker started and add_comments_to_queue about to put MaxDepth
\* valid comments
PaceInit ==
    /\ BufferInit
    /\ LogIdle
    /\ PersonaIdle
    /\ CountIdle
    /\ HttpIdle
    /\ CycleIdle
    /\ PaceIdle
    /\ CaptureIdle
    /\ LifeIdle
    /\ persona_manager = TRUE
    /\ comment_queue = <<>>
    /\ apc = "put"
    /\ cycles = 1
    /\ cycle_limit = 1
    /\ raw_response = TextReply(<<>>)
    /\ expected_persona_ids = <<>>
    /\ response = StrResponse(<<>>)
    /\ valid_comments = [i \in 1..MaxDepth |-> EarlierItem]
    /\ last_log = "queued"
    /\ wpc = "w_loop"
    /\ comment_item = None
    /\ enqueued = <<>>
    /\ queue_before = <<>>
    /\ queue_batch = <<>>
    /\ last_batch_dequeued = 0
    /\ xml_thread_running = TRUE
    /\ voice_kind = "none"
    /\ is_processing = FALSE
    /\ is_recording = FALSE
    /\ remote_stop_calls = 0
    /\ item_tag = None
    /\ acked = <<>>
    /\ backoff_due = FALSE
    /\ exit_cause = "none"
    /\ stop_events = <<>>
    /\ unfinished_tasks = 0
    /\ queue_tag = <<>>

\* _xml_output_worker from `while self.xml_thread_running:` to the end of
\* time.sleep(wait_time)
WorkerPace ==
    /\ wpc = "w_loop"
    /\ xml_thread_running
    /\ queue_size' = Len(comment_queue)
    /\ wait_time' \in Uniform(WaitRange(Len(comment_queue)))
    /\ paced_writes' = Len(write_log)
    /\ wpc' = "w_wait"
    /\ UNCHANGED <<bufferVars, personaVars, countVars, httpVars, cycleVars,
                   captureVars, logVars,
                   lifeVars>>
    /\ UNCHANGED <<cycle_limit, persona_manager, comment_queue, apc,
                   cycles, raw_response, expected_persona_ids,
                   response, valid_comments, last_log,
                   comment_item, enqueued, queue_before,
                   queue_batch, last_batch_dequeued>>
    /\ UNCHANGED <<xml_thread_running, unfinished_tasks,
                   voice_kind, is_processing, is_recording,
                   remote_stop_calls, queue_tag, item_tag, acked,
                   backoff_due, exit_cause, stop_events>>

\* the other variables of the run, which capture leaves alone
captureFrame == <<xml_thread_running, unfinished_tasks, voice_kind,
                  remote_stop_calls, queue_tag, item_tag, acked,
                  backoff_due, exit_cause, stop_events>>

\* a recognizer after __init__, before any start
CaptureInit ==
    /\ BufferInit
    /\ QueueIdle
    /\ LogIdle
    /\ RunIdle
    /\ PersonaIdle
    /\ CountIdle
    /\ HttpIdle
    /\ CycleIdle
    /\ PaceIdle
    /\ CaptureIdle
    /\ LifeIdle
    /\ cycle_limit = 0

\* the route /start (and voice_thread of start_voice_recognition):
\* start_recording opens the stream, then is_processing is set and a
\* processing thread started; while is_recording is set the route answers
\* 400 and starts nothing
StartRecognition ==
    /\ ~is_recording
    /\ started < MaxStarts
    /\ is_recording' = TRUE
    /\ is_processing' = TRUE
    /\ started' = started + 1
    /\ kpc' = [kpc EXCEPT ![started + 1] = "loop"]
    /\ UNCHANGED <<audio_queue, frames_captured, next_sample, audio_buffer,
                   chunks, pulled, dropped>>
    /\ UNCHANGED <<bufferVars, queueVars, logVars, captureFrame, personaVars,
                   countVars, httpVars, cycleVars, paceVars,
                   lifeVars>>

\* the route /stop (and stop_voice_recognition): is_processing = False,
\* then stop_recording; no thread is joined
StopRecognition ==
    /\ is_processing \/ is_recording
    /\ is_processing' = FALSE
    /\ is_recording' = FALSE
    /\ UNCHANGED captureVars
    /\ UNCHANGED <<bufferVars, queueVars, logVars, captureFrame, personaVars,
                   countVars, httpVars, cycleVars, paceVars,
                   lifeVars>>

\* audio_callback, called by the driver while the stream is open
AudioCallback ==
    /\ is_recording
    /\ frames_captured < MaxFrames
    /\ \E size \in FrameSizes :
          /\ audio_queue' = AfterCallback(audio_queue,
                                          Frame(next_sample, size))
          /\ next_sample' = next_sample + size
    /\ dropped' = IF QueueFull(audio_queue) THEN dropped + 1 ELSE dropped
    /\ frames_captured' = frames_captured + 1
    /\ UNCHANGED <<started, kpc, audio_buffer, chunks, pulled>>
    /\ UNCHANGED <<bufferVars, queueVars, logVars, runVars, personaVars,
                   countVars, httpVars, cycleVars, paceVars,
                   lifeVars>>

\* processing_thread: `while self.is_processing:`
ProcCheck(t) ==
    /\ kpc[t] = "loop"
    /\ kpc' = [kpc EXCEPT ![t] = IF is_processing THEN "get" ELSE "done"]
    /\ UNCHANGED <<audio_queue, frames_captured, next_sample, started,
                   audio_buffer, chunks, pulled, dropped>>
    /\ UNCHANGED <<bufferVars, queueVars, logVars, runVars, personaVars,
                   countVars, httpVars, cycleVars, paceVars,
                   lifeVars>>

\* processing_thread: audio_queue.get timed out (queue.Empty): continue
ProcEmpty(t) ==
    /\ kpc[t] = "get"
    /\ audio_queue = <<>>
    /\ kpc' = [kpc EXCEPT ![t] = "loop"]
    /\ UNCHANGED <<audio_queue, frames_captured, next_sample, started,
                   audio_buffer, chunks, pulled, dropped>>
    /\ UNCHANGED <<bufferVars, queueVars, logVars, runVars, personaVars,
                   countVars, httpVars, cycleVars, paceVars,
                   lifeVars>>

\* processing_thread: a frame is taken and joined to audio_buffer; with a
\* chunk or more in the buffer one chunk is cut off for transcription
ProcPull(t) ==
    /\ kpc[t] = "get"
    /\ audio_queue # <<>>
    /\ audio_queue' = Tail(audio_queue)
    /\ pulled' = [pulled EXCEPT ![t] = Append(@, Head(audio_queue))]
    /\ LET joined == audio_buffer[t] \o Head(audio_queue)
       IN  IF Len(joined) >= ChunkSize
           THEN /\ chunks' = [chunks EXCEPT
                                 ![t] = Append(@, ProcessData(joined))]
                /\ audio_buffer' = [audio_buffer EXCEPT
                                       ![t] = Remainder(joined)]
                /\ kpc' = [kpc EXCEPT ![t] = "transcribe"]
           ELSE /\ chunks' = chunks
                /\ audio_buffer' = [audio_buffer EXCEPT ![t] = joined]
                /\ kpc' = [kpc EXCEPT ![t] = "loop"]
    /\ UNCHANGED <<frames_captured, next_sample, started, dropped>>
    /\ UNCHANGED <<bufferVars, queueVars, logVars, runVars, personaVars,
                   countVars, httpVars, cycleVars, paceVars,
                   lifeVars>>

\* processing_thread: process_audio_chunk has returned
ProcTranscribed(t) ==
    /\ kpc[t] = "transcribe"
    /\ kpc' = [kpc EXCEPT ![t] = "loop"]
    /\ UNCHANGED <<audio_queue, frames_captured, next_sample, started,
                   audio_buffer, chunks, pulled, dropped>>
    /\ UNCHANGED <<bufferVars, queueVars, logVars, runVars, personaVars,
                   countVars, httpVars, cycleVars, paceVars,
                   lifeVars>>

CaptureNext ==
    \/ StartRecognition
    \/ StopRecognition
    \/ AudioCallback
    \/ \E t \in ProcIds : ProcCheck(t)
    \/ \E t \in ProcIds : ProcEmpty(t)
    \/ \E t \in ProcIds : ProcPull(t)
    \/ \E t \in ProcIds : ProcTranscribed(t)

\* the variables of the queue and of the run that the calls of start and
\* stop and the output threads leave alone
lifeFrame == <<persona_manager, apc, cycles, cycle_limit, raw_response,
               expected_persona_ids, response, valid_comments, last_log,
               wpc, comment_item, enqueued, queue_before, queue_batch,
               last_batch_dequeued, unfinished_tasks, voice_kind,
               is_processing, is_recording, remote_stop_calls, queue_tag,
               item_tag, acked, backoff_due, exit_cause, stop_events>>

lifeOthers == <<bufferVars, logVars, lifeFrame, personaVars, countVars,
                httpVars, cycleVars, paceVars, captureVars>>

\* the output threads created so far
Created == Cardinality({t \in WorkerIds : tpc[t] # "not_started"})

\* an explainer after __init__: no output thread, an empty queue
LifeInit ==
    /\ BufferInit
    /\ QueueIdle
    /\ LogIdle
    /\ RunIdle
    /\ PersonaIdle
    /\ CountIdle
    /\ HttpIdle
    /\ CycleIdle
    /\ PaceIdle
    /\ CaptureIdle
    /\ LifeIdle
    /\ cycle_limit = 0

\* start_xml_output_thread
StartCall ==
    /\ lpc = "idle"
    /\ Len(calls) < MaxCalls
    /\ IF StartsThread(xml_output_thread, tpc)
       THEN /\ Created < MaxWorkers
            /\ xml_thread_running' = TRUE
            /\ xml_output_thread' = Created + 1
            /\ tpc' = [tpc EXCEPT ![Created + 1] = "w_loop"]
            /\ calls' = Append(calls, "started")
       ELSE /\ calls' = Append(calls, "start_skipped")
            /\ UNCHANGED <<xml_thread_running, xml_output_thread, tpc>>
    /\ UNCHANGED <<comment_queue, thread_item, lpc, puts, thread_writes,
                   stop_marks>>
    /\ UNCHANGED lifeOthers

\* stop_xml_output_thread: `self.xml_thread_running = False`
StopCallFlag ==
    /\ lpc = "idle"
    /\ Len(calls) < MaxCalls
    /\ xml_thread_running' = FALSE
    /\ lpc' = "stop_test"
    /\ UNCHANGED <<comment_queue, xml_output_thread, tpc, thread_item, calls,
                   puts, thread_writes, stop_marks>>
    /\ UNCHANGED lifeOthers

\* stop_xml_output_thread: the test of the thread; without a live thread
\* the call returns
StopCallTest ==
    /\ lpc = "stop_test"
    /\ IF StopsThread(xml_output_thread, tpc)
       THEN /\ lpc' = "stop_put"
            /\ calls' = calls
       ELSE /\ lpc' = "idle"
            /\ calls' = Append(calls, "stop_skipped")
    /\ UNCHANGED <<comment_queue, xml_thread_running, xml_output_thread, tpc,
                   thread_item, puts, thread_writes, stop_marks>>
    /\ UNCHANGED lifeOthers

\* stop_xml_output_thread: `self.comment_queue.put(None)`
StopCallPut ==
    /\ lpc = "stop_put"
    /\ comment_queue' = Append(comment_queue, None)
    /\ stop_marks' = Append(stop_marks,
                            [thread |-> xml_output_thread,
                             queued |-> comment_queue,
                             writes |-> Len(thread_writes)])
    /\ lpc' = "stop_join"
    /\ UNCHANGED <<xml_thread_running, xml_output_thread, tpc, thread_item,
                   calls, puts, thread_writes>>
    /\ UNCHANGED lifeOthers

\* stop_xml_output_thread: join(timeout=5) returns because the thread has
\* ended
StopCallJoined ==
    /\ lpc = "stop_join"
    /\ ~IsAlive(tpc[xml_output_thread])
    /\ lpc' = "idle"
    /\ calls' = Append(calls, "stop_joined")
    /\ UNCHANGED <<comment_queue, xml_thread_running, xml_output_thread, tpc,
                   thread_item, puts, thread_writes, stop_marks>>
    /\ UNCHANGED lifeOthers

\* stop_xml_output_thread: join(timeout=5) returns after five seconds with
\* the thread still in its sleep or in a write
StopCallTimeout ==
    /\ lpc = "stop_join"
    /\ IsAlive(tpc[xml_output_thread])
    /\ lpc' = "idle"
    /\ calls' = Append(calls, "stop_timeout")
    /\ UNCHANGED <<comment_queue, xml_thread_running, xml_output_thread, tpc,
                   thread_item, puts, thread_writes, stop_marks>>
    /\ UNCHANGED lifeOthers

\* add_comments_to_queue: `self.comment_queue.put(comment_item)`, with the
\* comments numbered in the order of their puts
PutCall ==
    /\ lpc = "idle"
    /\ puts < MaxPuts
    /\ comment_queue' = Append(comment_queue, Some(puts + 1))
    /\ puts' = puts + 1
    /\ UNCHANGED <<xml_thread_running, xml_output_thread, tpc, thread_item,
                   lpc, calls, thread_writes, stop_marks>>
    /\ UNCHANGED lifeOthers

\* _xml_output_worker of thread t: `while self.xml_thread_running:`
ThreadCheck(t) ==
    /\ tpc[t] = "w_loop"
    /\ tpc' = [tpc EXCEPT
                  ![t] = IF LoopGoesOn(xml_thread_running)
                         THEN "w_wait" ELSE "w_exit"]
    /\ UNCHANGED <<comment_queue, xml_thread_running, xml_output_thread,
                   thread_item, lpc, calls, puts, thread_writes, stop_marks>>
    /\ UNCHANGED lifeOthers

\* _xml_output_worker of thread t: the sleep is over and
\* comment_queue.get timed out (queue.Empty): continue
ThreadEmpty(t) ==
    /\ tpc[t] = "w_wait"
    /\ comment_queue = <<>>
    /\ tpc' = [tpc EXCEPT ![t] = "w_loop"]
    /\ UNCHANGED <<comment_queue, xml_thread_running, xml_output_thread,
                   thread_item, lpc, calls, puts, thread_writes, stop_marks>>
    /\ UNCHANGED lifeOthers

\* _xml_output_worker of thread t: the sleep is over and
\* comment_queue.get returned an element; None ends the thread
ThreadGet(t) ==
    /\ tpc[t] = "w_wait"
    /\ comment_queue # <<>>
    /\ comment_queue' = QueueRest(comment_queue)
    /\ thread_item' = [thread_item EXCEPT ![t] = Head(comment_queue)]
    /\ tpc' = [tpc EXCEPT
                  ![t] = IF IsSentinel(Head(comment_queue))
                         THEN "w_exit" ELSE "w_write"]
    /\ UNCHANGED <<xml_thread_running, xml_output_thread, lpc, calls, puts,
                   thread_writes, stop_marks>>
    /\ UNCHANGED lifeOthers

\* _xml_output_worker of thread t: _write_single_comment_to_xml has
\* returned, then comment_queue.task_done()
ThreadWrite(t) ==
    /\ tpc[t] = "w_write"
    /\ thread_writes' = Append(thread_writes,
                               [thread |-> t, item |-> Val(thread_item[t])])
    /\ thread_item' = [thread_item EXCEPT ![t] = None]
    /\ tpc' = [tpc EXCEPT ![t] = "w_loop"]
    /\ UNCHANGED <<comment_queue, xml_thread_running, xml_output_thread, lpc,
                   calls, puts, stop_marks>>
    /\ UNCHANGED lifeOthers

\* a step of output thread t
ThreadStep(t) ==
    \/ ThreadCheck(t)
    \/ ThreadEmpty(t)
    \/ ThreadGet(t)
    \/ ThreadWrite(t)

LifeNext ==
    \/ StartCall
    \/ StopCallFlag
    \/ StopCallTest
    \/ StopCallPut
    \/ StopCallJoined
    \/ StopCallTimeout
    \/ PutCall
    \/ \E t \in WorkerIds : ThreadStep(t)

\* stop_voice_recognition, local recognizer: is_processing = False
StopVoiceFlag ==
    /\ apc = "stop_voice"
    /\ voice_kind = "local"
    /\ is_processing' = FALSE
    /\ stop_events' = Append(stop_events, "processing_flag")
    /\ apc' = "stop_stream"
    /\ UNCHANGED <<bufferVars, callVars, logVars>>
    /\ UNCHANGED <<cycle_limit, persona_manager, comment_queue, cycles,
                   raw_response, expected_persona_ids,
                   response, valid_comments, last_log, wpc,
                   comment_item, enqueued, queue_before,
                   queue_batch, last_batch_dequeued>>
    /\ UNCHANGED <<xml_thread_running, unfinished_tasks,
                   voice_kind, is_recording,
                   remote_stop_calls, queue_tag, item_tag,
                   acked, backoff_due, exit_cause>>

\* stop_voice_recognition, local recognizer: stop_recording()
StopVoiceStream ==
    /\ apc = "stop_stream"
    /\ is_recording' = FALSE
    /\ stop_events' = IF is_recording THEN Append(stop_events, "stream")
                      ELSE stop_events
    /\ apc' = "stop_xml"
    /\ UNCHANGED <<bufferVars, callVars, logVars>>
    /\ UNCHANGED <<cycle_limit, persona_manager, comment_queue, cycles,
                   raw_response, expected_persona_ids,
                   response, valid_comments, last_log, wpc,
                   comment_item, enqueued, queue_before,
                   queue_batch, last_batch_dequeued>>
    /\ UNCHANGED <<xml_thread_running, unfinished_tasks,
                   voice_kind, is_processing,
                   remote_stop_calls, queue_tag, item_tag,
                   acked, backoff_due, exit_cause>>

\* stop_voice_recognition, remote recognizer: stop_recording() posts /stop
StopVoiceRemote ==
    /\ apc = "stop_voice"
    /\ voice_kind = "remote"
    /\ remote_stop_calls' = remote_stop_calls + 1
    /\ stop_events' = Append(stop_events, "remote_stop")
    /\ apc' = "stop_xml"
    /\ UNCHANGED <<bufferVars, callVars, logVars>>
    /\ UNCHANGED <<cycle_limit, persona_manager, comment_queue, cycles,
                   raw_response, expected_persona_ids,
                   response, valid_comments, last_log, wpc,
                   comment_item, enqueued, queue_before,
                   queue_batch, last_batch_dequeued>>
    /\ UNCHANGED <<xml_thread_running, unfinished_tasks,
                   voice_kind, is_processing, is_recording,
                   queue_tag, item_tag, acked, backoff_due,
                   exit_cause>>

\* the shutdown without voice recognition
StopVoiceSkipped ==
    /\ apc = "stop_voice"
    /\ voice_kind = "none"
    /\ apc' = "stop_xml"
    /\ UNCHANGED <<bufferVars, callVars, logVars, runVars>>
    /\ UNCHANGED <<cycle_limit, persona_manager, comment_queue, cycles,
                   raw_response, expected_persona_ids,
                   response, valid_comments, last_log, wpc,
                   comment_item, enqueued, queue_before,
                   queue_batch, last_batch_dequeued>>

\* stop_xml_output_thread: self.xml_thread_running = False
StopXmlFlag ==
    /\ apc = "stop_xml"
    /\ xml_thread_running' = FALSE
    /\ stop_events' = Append(stop_events, "running_flag")
    /\ apc' = "stop_sentinel"
    /\ UNCHANGED <<bufferVars, callVars, logVars>>
    /\ UNCHANGED <<cycle_limit, persona_manager, comment_queue, cycles,
                   raw_response, expected_persona_ids,
                   response, valid_comments, last_log, wpc,
                   comment_item, enqueued, queue_before,
                   queue_batch, last_batch_dequeued>>
    /\ UNCHANGED <<unfinished_tasks, voice_kind,
                   is_processing, is_recording,
                   remote_stop_calls, queue_tag, item_tag,
                   acked, backoff_due, exit_cause>>

\* the thread object exists and is_alive()
WorkerAlive == wpc \notin {"not_started", "w_exit"}

\* stop_xml_output_thread: with the thread alive, comment_queue.put(None)
StopXmlSentinel ==
    /\ apc = "stop_sentinel"
    /\ IF WorkerAlive
       THEN /\ comment_queue' = QueuePut(comment_queue, None)
            /\ unfinished_tasks' = unfinished_tasks + 1
            /\ queue_batch' = QueuePut(queue_batch, cycles)
            /\ queue_tag' = QueuePut(queue_tag, PutTag(0, 0, clock))
            /\ stop_events' = Append(stop_events, "sentinel")
            /\ apc' = "join"
       ELSE /\ apc' = "stopped"
            /\ UNCHANGED <<comment_queue, unfinished_tasks, queue_batch,
                           queue_tag, stop_events>>
    /\ UNCHANGED <<bufferVars, callVars, logVars>>
    /\ UNCHANGED <<cycle_limit, persona_manager, cycles, raw_response,
                   expected_persona_ids, response,
                   valid_comments, last_log, wpc,
                   comment_item, enqueued, queue_before,
                   last_batch_dequeued>>
    /\ UNCHANGED <<xml_thread_running, voice_kind,
                   is_processing, is_recording,
                   remote_stop_calls, item_tag, acked,
                   backoff_due, exit_cause>>

\* stop_xml_output_thread: join(timeout=5) returns, the worker having
\* ended or the five seconds having passed
StopXmlJoin ==
    /\ apc = "join"
    /\ stop_events' = Append(stop_events,
                             IF WorkerAlive THEN "join_timeout" ELSE "joined")
    /\ apc' = "stopped"
    /\ UNCHANGED <<bufferVars, callVars, logVars>>
    /\ UNCHANGED <<cycle_limit, persona_manager, comment_queue, cycles,
                   raw_response, expected_persona_ids,
                   response, valid_comments, last_log, wpc,
                   comment_item, enqueued, queue_before,
                   queue_batch, last_batch_dequeued>>
    /\ UNCHANGED <<xml_thread_running, unfinished_tasks,
                   voice_kind, is_processing, is_recording,
                   remote_stop_calls, queue_tag, item_tag,
                   acked, backoff_due, exit_cause>>

FilterNext ==
    \/ Normalize
    \/ AddCommentsToQueue
    \/ PutComment

QueueNext ==
    \/ StartXmlOutputThread
    \/ ReceiveReply
    \/ Normalize
    \/ AddCommentsToQueue
    \/ PutComment
    \/ WorkerCheck
    \/ WorkerEmpty
    \/ WorkerGet
    \/ WorkerWrite

\* the run with writes that fail and errors in the worker's loop
FaultNext ==
    \/ QueueNext
    \/ WorkerWriteError
    \/ WorkerLoopError
    \/ WorkerBackoff

\* the run with the stages of every cycle
CycleNext ==
    \/ StartXmlOutputThread
    \/ CaptureScreenshot
    \/ ImageAnalysis
    \/ GenerateComments
    \/ AddCommentsToQueue
    \/ PutComment
    \/ CycleRaises
    \/ Interrupt
    \/ WorkerCheck
    \/ WorkerEmpty
    \/ WorkerGet
    \/ WorkerWrite

\* the worker with its waits, beside the puts of one call
PaceNext ==
    \/ PutComment
    \/ WorkerPace
    \/ WorkerEmpty
    \/ WorkerGet
    \/ WorkerWrite

\* the run with the clock advancing
TimedNext ==
    \/ QueueNext
    \/ Tick

\* the run with its shutdown, and with writes that fail
RunNext ==
    \/ QueueNext
    \/ WorkerWriteError
    \/ Interrupt
    \/ StopVoiceFlag
    \/ StopVoiceStream
    \/ StopVoiceRemote
    \/ StopVoiceSkipped
    \/ StopXmlFlag
    \/ StopXmlSentinel
    \/ StopXmlJoin

\* the run with its shutdown, with exceptions in a cycle and interrupts
\* at every point of the loop
InterruptNext ==
    \/ RunNext
    \/ CycleRaises
    \/ HandlerInterrupted

\* a direct call of _write_single_comment_to_xml(item) in which nothing
\* raises
LogAppend ==
    /\ Len(write_log) < MaxWrites
    /\ \E item \in LogItems :
          /\ xml_file' = WrittenFile(xml_file, item, clock)
          /\ write_log' = Append(write_log,
                                 WriteRecord(Some(item), None, clock, TRUE))
    /\ comment_counter' = CounterAfter(comment_counter, TRUE)
    /\ UNCHANGED <<bufferVars, callVars, queueVars, runVars>>

LogNext ==
    \/ Tick
    \/ LogAppend

-----------------------------------------------------------------------------
(* The specifications *)

\* the recognizer on its own: the analysis loop has not begun
VoiceInit ==
    BufferInit /\ QueueIdle /\ LogIdle /\ RunIdle /\ CallsIdle
        /\ cycle_limit = 0

\* the transcript buffer alone
SpecBuffer == VoiceInit /\ [][BufferNext]_vars

\* one reply, normalized, filtered and enqueued
SpecFilter == FilterInit /\ [][FilterNext]_vars

\* one reply with older keys or odd values, normalized and filtered
SpecLegacy == LegacyInit /\ [][FilterNext]_vars

\* the analysis loop and the output worker
SpecQueue == QueueInit /\ [][QueueNext]_vars

\* direct calls of the log writer
SpecLog == LogInit /\ [][LogNext]_vars

\* the analysis loop and the output worker with faults in the worker
SpecFaults == ShortInit /\ [][FaultNext]_vars

\* the same, with the worker scheduled again and again, its get not
\* kept off for ever by errors in its loop, and every write ending
SpecFaultsFair ==
    /\ ShortInit
    /\ [][FaultNext]_vars
    /\ WF_vars(WorkerCheck)
    /\ WF_vars(WorkerBackoff)
    /\ SF_vars(WorkerGet)
    /\ WF_vars(WorkerWrite \/ WorkerWriteError)

\* the analysis loop and the output worker under an advancing clock
SpecTimed == ShortInit /\ [][TimedNext]_vars

\* the analysis loop, the output worker and the shutdown
SpecRun == RunInit /\ [][RunNext]_vars

\* the analysis loop left by an interrupt, in the try block or in the
\* handler of an exception
SpecInterrupt == RunInit /\ [][InterruptNext]_vars

\* calls of get_random_personas
SpecPersona == PersonaInit /\ [][PersonaNext]_vars

\* calls of remove_character_count
SpecCount == CountInit /\ [][CountNext]_vars

\* calls of the operations of the HTTP clients
SpecHttp == HttpInit /\ [][HttpNext]_vars

\* the analysis loop stage by stage, with requests that fail
SpecCycle == CycleInit /\ [][CycleNext]_vars

\* the output worker with its waits
SpecPace == PaceInit /\ [][PaceNext]_vars

\* the capture queue and the processing threads of a recognizer
SpecCapture == CaptureInit /\ [][CaptureNext]_vars

\* starts and stops of the output thread, with comments put in between
SpecLife == LifeInit /\ [][LifeNext]_vars

\* the same, with every output thread scheduled again and again
SpecLifeFair ==
    /\ LifeInit
    /\ [][LifeNext]_vars
    /\ \A t \in WorkerIds : WF_vars(ThreadStep(t))

-----------------------------------------------------------------------------
(* Part I: the claims about the transcript buffer *)

Entries(lst) == {lst[i] : i \in DOMAIN lst}

\* the last k entries of lst, oldest first
LastEntries(lst, k) == [i \in 1..k |-> lst[Len(lst) - k + i]]

\* the first k entries of lst
FirstEntries(lst, k) == [i \in 1..k |-> lst[i]]

Smaller(a, b) == IF a <= b THEN a ELSE b

TimeOrdered(lst) ==
    \A i, j \in DOMAIN lst : i < j => lst[i].time <= lst[j].time

\* a get_recent_texts of thread t has computed the value it returns
Returning(t) == vpc[t] = "g_return"

\* a get_and_clear_recent_texts(since) of thread t, since not None, has
\* stored the new buffer and is about to return
Consumed(t) == vpc[t] = "c_return" /\ ~IsNone(since_timestamp[t])

C3_Original ==
    \A t \in CallerThreads :
        Consumed(t) =>
            LET fresh == SelectSeq(pre, LAMBDA e : e.time > Val(since_timestamp[t]))
            IN  /\ filtered_texts[t] = fresh
                /\ recognized_texts = fresh

\* C3 amended: consumeSince(sinceTime) returns the entries with time >
\* sinceTime and removes from the buffer exactly those returned entries:
\* afterwards the fresh entries are gone and the stale entries (time <=
\* sinceTime) are still stored, in their order.
C3_ConsumeReturnsFresh ==
    \A t \in CallerThreads :
        Consumed(t) =>
            /\ filtered_texts[t] =
                   SelectSeq(pre, LAMBDA e : e.time > Val(since_timestamp[t]))
            /\ recognized_texts =
                   SelectSeq(pre, LAMBDA e : ~(e.time > Val(since_timestamp[t])))

\* a consume that found both a stale and a fresh entry in the buffer
C3_Witness ==
    \E t \in CallerThreads :
        /\ Consumed(t)
        /\ \E e \in Entries(pre) : e.time <= Val(since_timestamp[t])
        /\ \E e \in Entries(pre) : e.time > Val(since_timestamp[t])

\* C4: consumeSince(sinceTime) keeps the stale entries and evicts the fresh
\* ones: after the call the buffer holds exactly the previously stored
\* entries with time <= sinceTime and no returned entry; and the only steps
\* that ever take an entry out of the buffer are a clear, a consume without
\* sinceTime, and a consume's store, which takes out only entries newer than
\* its sinceTime, so no sequence of consumeSince calls removes an entry that
\* is not newer than the sinceTime values used.
C4_StaleKeptFreshEvicted ==
    /\ [](\A t \in CallerThreads :
             Consumed(t) =>
                 /\ recognized_texts =
                        SelectSeq(pre, LAMBDA e : e.time <= Val(since_timestamp[t]))
                 /\ Entries(filtered_texts[t]) \cap Entries(recognized_texts) = {})
    /\ [][\A e \in Entries(recognized_texts) :
             e \notin Entries(recognized_texts') =>
                 \E t \in CallerThreads :
                     \/ vpc[t] \in {"l_clear", "c_clear"} /\ vpc'[t] # vpc[t]
                     \/ /\ vpc[t] = "c_store" /\ vpc'[t] = "c_return"
                        /\ e.time > Val(since_timestamp[t])]_vars

\* a consume that returned an entry and left two stale ones behind, after an
\* earlier clear or consume
C4_Witness ==
    \E t \in CallerThreads :
        /\ Consumed(t)
        /\ Len(filtered_texts[t]) >= 1
        /\ Len(recognized_texts) >= 2
        /\ \A e \in Entries(recognized_texts) : e.time <= Val(since_timestamp[t])

\* C5: when N appends were performed by the processing threads, in any
\* interleaving, and no consume or clear has run, a query with sinceTime
\* below all entry times and limit N returns exactly N entries, each
\* appended text once.
C5_NoAppendLost ==
    \A t \in CallerThreads :
        (/\ Returning(t)
         /\ ~touched
         /\ since_timestamp[t] = Some(0)
         /\ limit[t] = Some(Len(appended))) =>
            /\ Len(filtered_texts[t]) = Len(appended)
            /\ Texts(filtered_texts[t]) = Texts(appended)
            /\ Cardinality(Texts(filtered_texts[t])) = Len(appended)

\* both processing threads appended, in the order opposite to the one in
\* which they recognized their texts, and the query asked for all entries
C5_Witness ==
    \E t \in CallerThreads :
        /\ Returning(t)
        /\ ~touched
        /\ since_timestamp[t] = Some(0)
        /\ limit[t] = Some(Len(appended))
        /\ Len(appended) >= 2
        /\ appended[1].text > appended[2].text

\* C6: every read, append, clear and consume runs entirely while holding
\* text_lock: never are two threads inside a buffer operation, a thread
\* inside one holds the lock, no appended entry is lost (each is in the
\* buffer, or was returned by a consume or dropped by a clear), and what a
\* consume returns and what it leaves are the two parts of the buffer it
\* found.
C6_Serialized ==
    /\ Cardinality({t \in VoiceThreads : vpc[t] \in InsidePc}) <= 1
    /\ \A t \in VoiceThreads : vpc[t] \in InsidePc => text_lock = TRUE
    /\ Texts(appended) = Texts(recognized_texts) \cup removed
    /\ \A t \in CallerThreads :
          vpc[t] = "c_return" =>
              /\ Entries(filtered_texts[t]) \cup Entries(recognized_texts)
                     = Entries(pre)
              /\ Len(filtered_texts[t]) + Len(recognized_texts) = Len(pre)

\* a consume is between its two comprehensions while a processing thread
\* waits for the lock with a recognized text
C6_Witness ==
    \E c \in CallerThreads, p \in ProcThreads :
        /\ vpc[c] = "c_store"
        /\ vpc[p] = "p_acquire"
        /\ ~IsNone(since_timestamp[c])
        /\ Len(recognized_texts) >= 1

-----------------------------------------------------------------------------
(* Part II: the claims about the normalizer, the filter and the queue *)

\* the text of a persona-keyed entry: the string, or the comment of the
\* older object form
EntryText(e) == CommentOf(e.value)

\* the text passes: something is left after trimming, its lower case has
\* no "none" in it and no keyword of the blocklist
Acceptable(t) ==
    LET low == Lower(t)
    IN  /\ Strip(t) # <<>>
        /\ ~Contains(low, <<"n", "o", "n", "e">>)
        /\ \A i \in DOMAIN NonGameKeywords : ~Contains(low, NonGameKeywords[i])

\* the CommentItem of persona k with text t
ItemFor(info, k, t) ==
    [handle |-> info[k].handle, persona |-> info[k].persona, comment |-> t]

\* add_comments_to_queue was called on `response` and has returned
CallDone == apc = "sleep" /\ last_log # "nothing"

\* the items on the queue that were not there when the call started
\* (nothing takes from the queue in SpecFilter)
Added ==
    [j \in 1..(Len(comment_queue) - Len(queue_before)) |->
        Val(comment_queue[Len(queue_before) + j])]

\* C7: once add_comments_to_queue has returned, an entry of the normalized
\* response whose key is in the persona table has its CommentItem among the
\* items added to the queue if and only if its text is non-empty after
\* trimming, has no "none" in its lower case and no blocklist keyword in its
\* lower case; "it's fine, none to report" and "check the excel sheet" are
\* never the text of an added item.
C7_AcceptedIffValid ==
    (CallDone /\ response.isdict) =>
        LET info == PersonaInfo(persona_manager)
        IN  /\ \A i \in DOMAIN response.items :
                   LET e == response.items[i]
                   IN  e.key \in DOMAIN info =>
                          ((\E j \in DOMAIN Added :
                                Added[j] = ItemFor(info, e.key, EntryText(e)))
                           <=> Acceptable(EntryText(e)))
            /\ \A j \in DOMAIN Added :
                   Added[j].comment \notin {TextNoneReport, TextExcelSheet}

\* a call on two entries of known personas: "check the excel sheet" was
\* rejected and the other entry was accepted and is on the queue
C7_Witness ==
    /\ CallDone
    /\ response.isdict
    /\ Len(response.items) = 2
    /\ \A i \in DOMAIN response.items :
           response.items[i].key \in DOMAIN PersonaInfo(persona_manager)
    /\ \E i \in DOMAIN response.items :
           EntryText(response.items[i]) = TextExcelSheet
    /\ Len(Added) = 1
    /\ Added[1].comment = TextNiceBase

\* the member of the reply that json.loads keeps for name k
LastMember(k) ==
    LET m == raw_response.members
    IN  m[CHOOSE i \in DOMAIN m :
              m[i].key = k /\ \A j \in DOMAIN m : j > i => m[j].key # k]

\* number of added items that carry the handle of persona k
AddedFor(k) ==
    Cardinality({j \in DOMAIN Added :
                     Added[j].handle = DefaultPersonas[k].handle})

\* the reply {listener: "nice base!", safety: "none"}
ExampleReply ==
    ObjectReply(<<[key |-> "listener", value |-> JStr(TextNiceBase)],
                  [key |-> "safety", value |-> JStr(TextNoneLower)]>>)

\* C8: for a reply that is a JSON object and a non-empty list of expected
\* persona ids, after normalizing and filtering the call has completed (it
\* logged that it queued or that it skipped) whether or not every expected
\* id is in the reply; each persona of the reply whose text is valid has
\* exactly one item added, each whose text is "none" has none; and the reply
\* {listener: "nice base!", safety: "none"} with expected ids listener,
\* safety, expert adds exactly one item, the one of listener.
C8_EndToEnd ==
    (/\ apc = "sleep"
     /\ raw_response.syntax = "object"
     /\ persona_manager
     /\ expected_persona_ids # <<>>) =>
        /\ last_log \in {"queued", "skipped_non_game", "skipped_no_valid"}
        /\ \A k \in DOMAIN DefaultPersonas :
               (\E i \in DOMAIN raw_response.members :
                     raw_response.members[i].key = k) =>
                   LET t == EntryText(LastMember(k))
                   IN  /\ Acceptable(t) => AddedFor(k) = 1
                       /\ Lower(t) = <<"n", "o", "n", "e">> => AddedFor(k) = 0
        /\ (/\ raw_response = ExampleReply
            /\ expected_persona_ids = <<"listener", "safety", "expert">>) =>
               Added = <<ItemFor(PersonaInfo(TRUE), "listener", TextNiceBase)>>

\* the example reply went through: expert was expected and is absent, one
\* item was added to a queue that already held one
C8_Witness ==
    /\ apc = "sleep"
    /\ persona_manager
    /\ raw_response = ExampleReply
    /\ expected_persona_ids = <<"listener", "safety", "expert">>
    /\ last_log = "queued"
    /\ queue_before # <<>>
    /\ Len(comment_queue) = Len(queue_before) + 1

\* no entry of the response is of a known persona with a passing text
NoSurvivor ==
    \A i \in DOMAIN response.items :
        \/ response.items[i].key \notin DOMAIN PersonaInfo(persona_manager)
        \/ ~Acceptable(EntryText(response.items[i]))

\* C9: when add_comments_to_queue is called on a response none of whose
\* entries survives filtering, it puts nothing (it never reaches the put
\* loop), returns having logged that it skipped, and the comment queue is
\* what it was when the call started.
C9_NothingEnqueued ==
    (/\ response.isdict
     /\ apc \in {"put", "sleep"}
     /\ last_log # "nothing"
     /\ NoSurvivor) =>
        /\ apc = "sleep"
        /\ comment_queue = queue_before
        /\ last_log \in {"skipped_non_game", "skipped_no_valid"}

\* a call on two entries, one of them blocklisted, none surviving, on a
\* queue that held an item: the queue is as before
C9_Witness ==
    /\ CallDone
    /\ response.isdict
    /\ Len(response.items) = 2
    /\ NoSurvivor
    /\ last_log = "skipped_non_game"
    /\ queue_before # <<>>
    /\ comment_queue = queue_before

\* the accepted entries of the response the running call was made on, as
\* CommentItems in the order of the entries
AcceptedItems ==
    IF response.isdict
    THEN LET info == PersonaInfo(persona_manager)
             ok == SelectSeq(response.items,
                             LAMBDA e : /\ e.key \in DOMAIN info
                                        /\ Acceptable(EntryText(e)))
         IN  [i \in DOMAIN ok |-> ItemFor(info, ok[i].key, EntryText(ok[i]))]
    ELSE IF Acceptable(response.str)
         THEN <<[handle |-> LegacyHandle, persona |-> LegacyPersona,
                 comment |-> response.str]>>
         ELSE <<>>

IsPermutationOf(a, b) ==
    /\ Len(a) = Len(b)
    /\ \E p \in Permutations(DOMAIN a) : \A i \in DOMAIN a : a[i] = b[p[i]]

\* the queued elements the current cycle has put
QueuedOfCycle == Len(SelectSeq(queue_batch, LAMBDA b : b = cycles))

\* C10: while add_comments_to_queue puts and after it has returned, the
\* items it has put followed by those it has yet to put are a permutation
\* of the accepted entries of its response, and after it has returned all
\* have been put; what the queue holds of the current cycle is the tail of
\* those items, in the order they were put; and the queue holds the
\* elements of earlier cycles before those of later cycles, none of them of
\* an earlier cycle than the element the worker took last.
C10_PermutationAndFifo ==
    /\ (apc \in {"put", "sleep"} /\ last_log # "nothing") =>
           /\ IsPermutationOf(enqueued \o valid_comments, AcceptedItems)
           /\ apc = "sleep" => valid_comments = <<>>
           /\ QueuedOfCycle <= Len(enqueued)
           /\ \A j \in 1..QueuedOfCycle :
                  comment_queue[Len(comment_queue) - QueuedOfCycle + j]
                      = Some(enqueued[Len(enqueued) - QueuedOfCycle + j])
    /\ Len(queue_batch) = Len(comment_queue)
    /\ \A i, j \in DOMAIN queue_batch :
           i < j => queue_batch[i] <= queue_batch[j]
    /\ \A i \in DOMAIN queue_batch : last_batch_dequeued <= queue_batch[i]

\* the second call has put its two items in the reverse order of its
\* entries while the worker, having taken one item of the first call, has
\* the other item of the first call still ahead in the queue
C10_Witness ==
    /\ cycles = 2
    /\ CallDone
    /\ Len(enqueued) = 2
    /\ enqueued = <<AcceptedItems[2], AcceptedItems[1]>>
    /\ last_batch_dequeued = 1
    /\ queue_batch = <<1, 2, 2>>

-----------------------------------------------------------------------------
(* Part III claims: the log file *)

\* the number of places where `sub` occurs in s
Occurrences(s, sub) ==
    Cardinality({i \in 1..Len(s) : MatchesAt(s, i, sub)})

\* the calls of the log writer so far in which nothing raised
OkWrites == SelectSeq(write_log, LAMBDA r : r.ok)

\* the empty document up to its closing tag
LogHead == SubSeq(EmptyLog, 1, Len(EmptyLog) - Len(CloseLog))

\* the entry of a written record as a well-formed log holds it
EntryOf(r) ==
    CommentXml(r.time, Val(r.element).handle,
               RemoveCharacterCount(Val(r.element).comment))
        \o <<"\n">>

\* the entries of the records, in their order
RECURSIVE EntriesOf(_)
EntriesOf(records) ==
    IF records = <<>> THEN <<>>
    ELSE EntryOf(Head(records)) \o EntriesOf(Tail(records))

\* the characters that are markup in a text, and in an attribute value
TextMarkup == {"<", "&"}
AttributeMarkup == {"<", "&", "\""}

\* the handle and the text of the record hold no markup
PlainRecord(r) ==
    LET handle == Val(r.element).handle
        written == RemoveCharacterCount(Val(r.element).comment)
    IN  /\ \A i \in DOMAIN handle : handle[i] \notin AttributeMarkup
        /\ \A i \in DOMAIN written : written[i] \notin TextMarkup

\* the log writer has been called, and every call so far returned
\* without raising
OnlyAppends ==
    /\ write_log # <<>>
    /\ \A i \in DOMAIN write_log : write_log[i].ok

\* C11 as the specification states it: from an absent or an empty log,
\* after N appends of any handles and texts the file is one well-formed
\* <log> root holding exactly N entries, in the order of the appends,
\* each with no="0" and the decimal time of its write
C11_Original ==
    OnlyAppends =>
        /\ ~IsNone(xml_file)
        /\ Val(xml_file) = LogHead \o EntriesOf(write_log) \o CloseLog
        /\ Occurrences(Val(xml_file), CommentXmlOpen) = Len(write_log)
        /\ Occurrences(Val(xml_file), CloseLog) = 1
        /\ \A i \in DOMAIN write_log : PlainRecord(write_log[i])

\* C12 as the specification states it: between appends the closing tag
\* </log> occurs in the file exactly once and ends it, an append inserts
\* exactly one entry immediately before it, and an absent file is first
\* created as the empty root
C12_Original ==
    [][LogAppend =>
          LET before == IF IsNone(xml_file) THEN EmptyLog
                        ELSE Val(xml_file)
              after == Val(xml_file')
              cut == Len(before) - Len(CloseLog)
          IN  /\ Occurrences(after, CloseLog) = 1
              /\ MatchesAt(after, Len(after) - Len(CloseLog) + 1, CloseLog)
              /\ Occurrences(after, CommentXmlOpen)
                     = Occurrences(before, CommentXmlOpen) + 1
              /\ SubSeq(after, 1, cut) = SubSeq(before, 1, cut)]_vars

\* C11: two appends have put three entries into the file, the second
\* text twice
C11_Witness ==
    /\ OnlyAppends
    /\ Len(write_log) = 2
    /\ Occurrences(Val(xml_file), CommentXmlOpen) = 3

\* C12: after one append the file holds the closing tag twice
C12_Witness ==
    /\ OnlyAppends
    /\ Len(write_log) = 1
    /\ Occurrences(Val(xml_file), CloseLog) = 2

-----------------------------------------------------------------------------
(* Part III claims: the output worker and the shutdown *)

\* the tags of the items (not of the sentinel) on the queue, in the
\* worker's hand, and written
QueuedTags ==
    {queue_tag[i] : i \in {j \in DOMAIN queue_tag :
                               ~IsNone(comment_queue[j])}}
HeldTags ==
    IF IsNone(item_tag) \/ IsNone(comment_item) THEN {}
    ELSE {Val(item_tag)}
WrittenTags ==
    {Val(write_log[i].tag) : i \in DOMAIN write_log}

\* the places where the item with tag t is: on the queue, in the worker's
\* hand, in the log
PlacesOf(t) ==
    Cardinality({i \in DOMAIN queue_tag : queue_tag[i] = t})
        + (IF t \in HeldTags THEN 1 ELSE 0)
        + Cardinality({i \in DOMAIN write_log : write_log[i].tag = Some(t)})

\* C13 (state part): every item that was put is in exactly one place: on
\* the queue (not yet consumed, or abandoned there when the worker has
\* ended), in the worker's hand, or handed to the log writer; so no item
\* is dequeued or written twice, and each call of the log writer is for
\* an item that was put; the tasks not yet done are the elements not yet
\* handed over (task_done is not called for the sentinel)
C13_ConsumedOnce ==
    /\ \A t \in QueuedTags \cup HeldTags \cup WrittenTags : PlacesOf(t) = 1
    /\ \A i \in DOMAIN write_log :
           /\ ~IsNone(write_log[i].element)
           /\ Val(write_log[i].tag).cycle \in 1..cycles
    /\ Len(acked) = Len(write_log)
    /\ unfinished_tasks =
           Len(comment_queue) + Cardinality(HeldTags)
               + (IF exit_cause = "sentinel" THEN 1 ELSE 0)

\* C13 (step part): an item never vanishes (it stays on the queue, in the
\* hand or in the log), the log only grows, and the only step that takes
\* an element from the queue is the worker's get
C13_SingleConsumer ==
    [][/\ \A t \in QueuedTags \cup HeldTags \cup WrittenTags :
              t \in QueuedTags' \cup HeldTags' \cup WrittenTags'
       /\ Len(write_log') >= Len(write_log)
       /\ SubSeq(write_log', 1, Len(write_log)) = write_log
       /\ Len(comment_queue') < Len(comment_queue) =>
              /\ wpc = "w_wait"
              /\ comment_queue' = Tail(comment_queue)
              /\ comment_item' = Head(comment_queue)]_vars

QueuedFields ==
    {DOMAIN Val(comment_queue[i]) :
         i \in {j \in DOMAIN comment_queue : ~IsNone(comment_queue[j])}}

\* C14: the entries of the file carry, in the order of the writes, the
\* decimal clock value read at each write; that value is never below the
\* clock at the put of the item; and an item on the queue has the fields
\* handle, persona and comment only, no time
C14_WriteTime ==
    /\ write_log # <<>> =>
           /\ ~IsNone(xml_file)
           /\ Val(xml_file) = LogHead \o EntriesOf(write_log) \o CloseLog
    /\ \A i \in DOMAIN write_log :
           /\ write_log[i].time >= Val(write_log[i].tag).time
           /\ write_log[i].time <= clock
    /\ QueuedFields \subseteq {{"handle", "persona", "comment"}}

\* an entry was written with a time later than the put of its item, and
\* the file shows the time of the write
C14_Witness ==
    /\ write_log # <<>>
    /\ write_log[1].time > Val(write_log[1].tag).time
    /\ Occurrences(Val(xml_file),
                   CommentXmlOpen \o IntToStr(write_log[1].time)
                       \o CommentXmlMiddle) >= 1
    /\ Occurrences(Val(xml_file),
                   CommentXmlOpen \o IntToStr(Val(write_log[1].tag).time)
                       \o CommentXmlMiddle) = 0

\* the places of the worker inside its while loop
InLoop == {"w_loop", "w_wait", "w_write", "w_backoff"}

\* the step is a call of the log writer in which the write raised
FailedWriteStep ==
    /\ Len(write_log') = Len(write_log) + 1
    /\ ~write_log'[Len(write_log')].ok

\* C15: with the running flag set and no sentinel put, the started worker
\* is inside its loop in every state, whatever writes have failed; and
\* the step in which a write raises leaves the worker at the head of the
\* loop with the item acknowledged, from where it gets the next item
C15_WorkerSurvives ==
    /\ [](xml_thread_running => wpc \in InLoop)
    /\ [][FailedWriteStep =>
              /\ wpc' = "w_loop"
              /\ xml_thread_running'
              /\ unfinished_tasks' = unfinished_tasks - 1]_vars

\* the write of the first item failed and the worker has written the
\* second item into the file
C15_Witness ==
    /\ Len(write_log) = 2
    /\ ~write_log[1].ok
    /\ write_log[2].ok
    /\ Val(write_log[1].tag).index = 1
    /\ Val(write_log[2].tag).index = 2
    /\ ~IsNone(xml_file)
    /\ Occurrences(Val(xml_file), CommentXmlOpen) >= 1

\* C16 as the specification states it: after a write that raised, the
\* worker passes through the backoff (time.sleep(1) of the outer handler)
\* before it waits for and gets the next element: it is never at the wait
\* or holding an element while a backoff is still due
C16_Original ==
    backoff_due => wpc \notin {"w_wait", "w_write"}

\* C16: a write has failed, the worker has not been in the backoff since,
\* and it already holds the next item
C16_Witness ==
    /\ backoff_due
    /\ wpc = "w_write"
    /\ Len(write_log) = 1
    /\ ~write_log[1].ok

\* the step is the worker's get of an element from the queue
GetStep == Len(comment_queue') < Len(comment_queue)

\* the tags of the calls of the log writer, in their order
CallTags == [i \in DOMAIN write_log |-> write_log[i].tag]

\* C17 (state part): the acknowledged elements are the elements handed to
\* the log writer, one task_done for each, and the sentinel is never
\* among them
C17_AckedOnce ==
    /\ acked = CallTags
    /\ \A i, j \in DOMAIN acked : i # j => acked[i] # acked[j]
    /\ \A i \in DOMAIN write_log : ~IsNone(write_log[i].element)
    /\ exit_cause = "sentinel" => wpc = "w_exit"

\* C17 (step part): the get of the sentinel takes the worker out of the
\* loop with the file, the log history and the acknowledgements
\* untouched, and an ended worker does nothing more; the get of an item
\* takes the worker to the write of that item, and the write is followed
\* in the same call by one task_done for it
C17_GetThenWrite ==
    [][/\ (GetStep /\ IsNone(Head(comment_queue))) =>
              /\ wpc' = "w_exit"
              /\ UNCHANGED <<xml_file, write_log, comment_counter, acked,
                             unfinished_tasks>>
       /\ wpc = "w_exit" =>
              UNCHANGED <<wpc, xml_file, write_log, comment_counter,
                          acked, comment_queue>>
       /\ (GetStep /\ ~IsNone(Head(comment_queue))) =>
              /\ wpc' = "w_write"
              /\ comment_item' = Head(comment_queue)
              /\ UNCHANGED <<xml_file, write_log, acked>>
       /\ wpc = "w_write" /\ wpc' # "w_write" =>
              /\ Len(write_log') = Len(write_log) + 1
              /\ write_log'[Len(write_log')].element = comment_item
              /\ acked' = Append(acked, item_tag)
              /\ unfinished_tasks' = unfinished_tasks - 1]_vars

\* C17 as one property
C17_SentinelOrItem == []C17_AckedOnce /\ C17_GetThenWrite

\* the worker wrote and acknowledged one item, then took the sentinel and
\* ended; the file holds the one entry
C17_Witness ==
    /\ wpc = "w_exit"
    /\ exit_cause = "sentinel"
    /\ Len(write_log) = 1
    /\ write_log[1].ok
    /\ acked = <<write_log[1].tag>>
    /\ Occurrences(Val(xml_file), CommentXmlOpen) = 1

\* the place of a shutdown event in the order of the shutdown
StopRank(e) ==
    CASE e = "processing_flag" -> 1
      [] e \in {"stream", "remote_stop"} -> 2
      [] e = "running_flag" -> 3
      [] e = "sentinel" -> 4
      [] e \in {"joined", "join_timeout"} -> 5

\* the shutdown event has happened
Happened(e) == \E i \in DOMAIN stop_events : stop_events[i] = e

\* the recognizer of the run has been stopped
VoiceStopped ==
    CASE voice_kind = "local" ->
             /\ Happened("processing_flag")
             /\ ~is_processing
             /\ ~is_recording
      [] voice_kind = "remote" ->
             /\ Happened("remote_stop")
             /\ remote_stop_calls = 1
      [] OTHER -> TRUE

\* C18: the steps of the shutdown happen in the order processing flag,
\* stream (local) or stop call (remote), running flag, sentinel, join;
\* the sentinel is on the queue only after the recognizer has been
\* stopped and the running flag cleared; and the join returns whether or
\* not the worker has ended, after which the shutdown is over
C18_ShutdownOrder ==
    /\ \A i, j \in DOMAIN stop_events :
           i < j => StopRank(stop_events[i]) < StopRank(stop_events[j])
    /\ (\E i \in DOMAIN comment_queue : IsNone(comment_queue[i])) =>
           Happened("sentinel")
    /\ Happened("sentinel") =>
           /\ VoiceStopped
           /\ Happened("running_flag")
           /\ ~xml_thread_running
    /\ Happened("stream") => Happened("processing_flag")
    /\ Happened("running_flag") => VoiceStopped
    /\ apc = "join" => Happened("sentinel") /\ ENABLED StopXmlJoin
    /\ apc = "stopped" =>
           /\ Happened("running_flag")
           /\ Happened("sentinel") =>
                  Happened("joined") \/ Happened("join_timeout")
    /\ Happened("joined") => ~WorkerAlive

\* the shutdown of a run with the local recognizer is over, every step
\* in its order, and the join has returned with the worker still alive
C18_Witness ==
    /\ apc = "stopped"
    /\ stop_events = <<"processing_flag", "stream", "running_flag",
                       "sentinel", "join_timeout">>
    /\ WorkerAlive

\* the shutdown of a run with the remote recognizer is over and the
\* worker had ended on the sentinel before the join returned
C18_RemoteWitness ==
    /\ apc = "stopped"
    /\ stop_events = <<"remote_stop", "running_flag", "sentinel", "joined">>
    /\ exit_cause = "sentinel"

-----------------------------------------------------------------------------
(* Part IV claims: the selection of personas *)

\* the registry without the excluded ids
Pool ==
    DOMAIN DefaultPersonas
        \ (IF IsNone(sample_exclude) THEN {} ELSE Val(sample_exclude))

\* the smaller of two numbers
Min(a, b) == IF a <= b THEN a ELSE b

\* C19: for a count k >= 0 the call does not raise and returns exactly
\* min(k, |pool|) personas, no two the same, each the registry's persona
\* of an id of the pool (the registry minus the excluded ids)
C19_RandomPersonas ==
    ppc = "done" =>
        /\ ~sample_raised
        /\ Len(selected) = Min(sample_count, Cardinality(Pool))
        /\ \A i, j \in DOMAIN selected :
               i # j => selected[i].persona_id # selected[j].persona_id
        /\ \A i \in DOMAIN selected :
               /\ selected[i].persona_id \in Pool
               /\ selected[i].name =
                      DefaultPersonas[selected[i].persona_id].name
               /\ selected[i].handle =
                      DefaultPersonas[selected[i].persona_id].handle

\* more personas were asked for than the pool of two holds, an id that
\* is not in the registry was excluded too, and both personas of the
\* pool were returned
C19_Witness ==
    /\ ppc = "done"
    /\ ~IsNone(sample_exclude)
    /\ UnknownPersona \in Val(sample_exclude)
    /\ Cardinality(Pool) = 2
    /\ sample_count = 4
    /\ Len(selected) = 2
    /\ ~sample_raised

-----------------------------------------------------------------------------
(* Part II claims: the decision table of the normalizer *)

\* parse_json_response has returned
Normalized == apc # "parse"

\* the object the reply parses to
ParsedReply == DictResponse(JsonLoads(raw_response.members))

\* rows 1 and 2: a reply that is no JSON comes back as it is, a reply that
\* is JSON but no object comes back as the schema-error string
RowsOneAndTwo ==
    /\ raw_response.syntax = "text" =>
           response = StrResponse(raw_response.text)
    /\ raw_response.syntax = "array" =>
           response = StrResponse(SchemaErrorString)

-----------------------------------------------------------------------------
(* Part II claims: older keys and values of any type *)

\* the older keys and their current names
RetiredKeys == {"safety_monitor", "game_expert"}
CurrentName(k) == IF k = "safety_monitor" THEN "safety" ELSE "expert"

\* the text a value carries: the string, or the nested comment
TextOf(value) ==
    IF value.kind = "dict" /\ ~value.has THEN <<>> ELSE value.str

\* C21 as the specification states it: with no expected ids (none given,
\* or an empty list), an object with an older key comes back as an object in
\* which the current name of each older key carries the older key's text,
\* the older keys are gone, and every other key has its value unchanged;
\* an object without older keys comes back unchanged
C21_Original ==
    (Normalized /\ raw_response.syntax = "object"
         /\ expected_persona_ids = <<>>) =>
        LET d == JsonLoads(raw_response.members)
            retired == DictKeys(d) \cap RetiredKeys
        IN  IF retired = {} THEN response = DictResponse(d)
            ELSE /\ response.isdict
                 /\ DictKeys(response.items) \cap RetiredKeys = {}
                 /\ \A k \in retired :
                        /\ CurrentName(k) \in DictKeys(response.items)
                        /\ DictGet(response.items, CurrentName(k))
                               = JStr(TextOf(DictGet(d, k)))
                 /\ \A k \in DictKeys(d) \ RetiredKeys :
                        /\ k \in DictKeys(response.items)
                        /\ DictGet(response.items, k) = DictGet(d, k)

\* C21: the reply held safety_monitor with a text and safety with a
\* nested comment; the object returned holds safety with the nested
\* comment only, and the text of safety_monitor is gone
C21_Witness ==
    /\ Normalized
    /\ persona_manager
    /\ expected_persona_ids = <<>>
    /\ raw_response.members =
           <<[key |-> "safety_monitor", value |-> JStr(TextNiceBase)],
             [key |-> "safety", value |-> JDict(TextGg)]>>
    /\ response = DictResponse(<<[key |-> "safety", value |-> JDict(TextGg)]>>)

\* C22 as the specification states it: whatever the reply and the
\* expected ids, parse_json_response returns a string or an object, and
\* add_comments_to_queue processes what it returned without raising
C22_Original ==
    /\ Normalized =>
           \/ response.isdict /\ response.str = <<>>
           \/ ~response.isdict /\ response.items = <<>>
    /\ last_log # "raised"

\* C22: the reply gave the expected persona listener a number; the
\* object came back unchanged and add_comments_to_queue raised on it,
\* with nothing put
C22_Witness ==
    /\ expected_persona_ids = <<"listener", "safety", "expert">>
    /\ raw_response.members = <<[key |-> "listener", value |-> JNumber]>>
    /\ response = ParsedReply
    /\ last_log = "raised"
    /\ apc = "sleep"
    /\ comment_queue = <<>>

-----------------------------------------------------------------------------
(* Part V claims: the count at the end of a comment *)

\* s[b..e] is a count: `open`, one or more digits, the count word, `close`
CountAt(s, b, e, open, close) ==
    /\ 1 <= b
    /\ e <= Len(s)
    /\ e - b >= Len(CountWord) + 2
    /\ s[b] = open
    /\ s[e] = close
    /\ SubSeq(s, e - Len(CountWord), e - 1) = CountWord
    /\ \A j \in (b + 1)..(e - Len(CountWord) - 1) : s[j] \in CountDigits

\* s ends with a count in ASCII or in full-width parentheses
EndsWithCount(s) ==
    \E b \in DOMAIN s :
        \/ CountAt(s, b, Len(s), "(", ")")
        \/ CountAt(s, b, Len(s), "uff08", "uff09")

\* s without its last count in the given parentheses, where the count is
\* the end of s or is followed by nothing but one final line feed
WithoutCount(s, open, close) ==
    LET last == {e \in DOMAIN s :
                    /\ e = Len(s) \/ (e = Len(s) - 1 /\ s[Len(s)] = "\n")
                    /\ \E b \in DOMAIN s : CountAt(s, b, e, open, close)}
    IN  IF last = {} THEN s
        ELSE LET e == CHOOSE x \in last : TRUE
                 b == CHOOSE x \in DOMAIN s : CountAt(s, x, e, open, close)
             IN  SubSeq(s, 1, b - 1) \o SubSeq(s, e + 1, Len(s))

\* C23 as stated: remove_character_count returns a text that ends with a
\* count without that count, and every other text unchanged.
C23_Original ==
    cpc # "call" =>
        IF EndsWithCount(count_comment)
        THEN \E b \in DOMAIN count_comment :
                 /\ \/ CountAt(count_comment, b, Len(count_comment), "(", ")")
                    \/ CountAt(count_comment, b, Len(count_comment),
                               "uff08", "uff09")
                 /\ count_once = SubSeq(count_comment, 1, b - 1)
        ELSE count_once = count_comment

\* C23: remove_character_count returns the text without a last count in
\* ASCII parentheses, then without a last count in full-width parentheses
\* (either one at the end or before one final line feed), and with the
\* white space at both ends removed; a text that neither ends with a count
\* nor starts or ends with white space is returned unchanged.
C23_StripsCountAndBlanks ==
    cpc # "call" =>
        /\ count_once =
               Strip(WithoutCount(WithoutCount(count_comment, "(", ")"),
                                  "uff08", "uff09"))
        /\ (/\ ~EndsWithCount(count_comment)
            /\ Strip(count_comment) = count_comment)
               => count_once = count_comment

\* a blank, a letter and a count went in; the letter came out
C23_Witness ==
    /\ cpc = "once"
    /\ count_comment = <<" ", "g", "(", "2", "u6587", "u5b57", ")">>
    /\ count_once = <<"g">>

\* C24 as stated: a second call of remove_character_count returns what the
\* first call returned, and what the first call returned does not end with
\* a count.
C24_Original ==
    /\ cpc = "twice" => count_twice = count_once
    /\ cpc # "call" => ~EndsWithCount(count_once)

\* a count followed by a blank stays in the first call and goes in the
\* second
C24_Witness ==
    /\ cpc = "twice"
    /\ count_comment = <<"g", "(", "2", "u6587", "u5b57", ")", " ">>
    /\ count_once = <<"g", "(", "2", "u6587", "u5b57", ")">>
    /\ count_twice = <<"g">>

-----------------------------------------------------------------------------
(* Part VI claims: failures of the transport *)

\* what stands for a failure: a str with the error prefix, False or []
ErrorValue(result) ==
    \/ result.kind = "str" /\ StartsWith(result.str, ErrorPrefix)
    \/ result.kind = "bool" /\ ~result.flag
    \/ result.kind = "list" /\ result.str = <<>>

\* the request of the finished call failed in the transport
TransportFailed == hpc = "done" /\ http_fault \in TransportFaults

\* C25 as stated: every public operation of the model client and of
\* RemoteVoiceRecognizer ends a failed transport with an error value and
\* never with an exception.
C25_Original ==
    TransportFailed => ~http_result.raised /\ ErrorValue(http_result)

\* C25: every public operation of the model client and of
\* RemoteVoiceRecognizer except get_status ends a failed transport with an
\* error value (an error-prefixed str, False or []); get_status raises the
\* exception of the transport again, and is_available, its only caller,
\* returns False.
C25_ErrorValues ==
    TransportFailed =>
        IF http_op = "get_status"
        THEN http_result = Raises(http_fault)
        ELSE /\ ~http_result.raised
             /\ ErrorValue(http_result)
             /\ http_op \in ModelOperations => http_result.kind = "str"
             /\ http_op = "is_available" => http_result = ReturnsBool(FALSE)

\* get_recent_texts returned [] for a request that timed out
C25_Witness ==
    /\ hpc = "done"
    /\ http_op = "get_recent_texts"
    /\ http_fault = "Timeout"
    /\ http_result = ReturnsList(<<>>)

\* get_status raised for a refused connection
C25_StatusWitness ==
    /\ hpc = "done"
    /\ http_op = "get_status"
    /\ http_fault = "ConnectionError"
    /\ http_result.raised

-----------------------------------------------------------------------------
(* Part VII claims: failed requests and exceptions in a cycle *)

\* the strings the model client returns for a failed transport
TransportErrorStrings ==
    {OllamaConnectError, ImageTimeoutError, ImageRequestError,
     CommentTimeoutError, CommentRequestError}

\* the comments on the queue and in the worker's hands
CommentsInFlight ==
    {Val(comment_queue[i]).comment :
         i \in {j \in DOMAIN comment_queue : ~IsNone(comment_queue[j])}}
    \cup (IF IsNone(comment_item) THEN {}
          ELSE {Val(comment_item).comment})

\* C26: when a request of a cycle fails in the transport the call returns
\* an error-prefixed string and the cycle goes no further: the loop is
\* never at add_comments_to_queue with it, and no string of a failed
\* transport is on the queue, held by the worker, or in the log file.
C26_TransportErrorsDropped ==
    /\ cycle_fault # "none" =>
           /\ apc \notin {"analysed", "filter", "put"}
           /\ \/ StartsWith(image_analysis, ErrorPrefix)
              \/ ~response.isdict /\ StartsWith(response.str, ErrorPrefix)
    /\ CommentsInFlight \cap TransportErrorStrings = {}
    /\ \A s \in TransportErrorStrings :
           IsNone(xml_file) \/ ~Contains(Val(xml_file), s)

\* the second cycle's comment request timed out after the first cycle's
\* comment was written to the log
C26_Witness ==
    /\ cycles = 2
    /\ cycle_fault = "Timeout"
    /\ response = StrResponse(CommentTimeoutError)
    /\ apc = "sleep"
    /\ Len(write_log) = 1
    /\ comment_queue = <<>>

\* the places of the analysis loop inside `while True`
LoopPlaces == {"sleep", "captured", "analysed", "parse", "filter", "put"}

\* the step in which an exception other than KeyboardInterrupt is caught
ExceptionStep == last_log # "raised" /\ last_log' = "raised"

\* C27 as stated: a step in which an exception is caught at the top of the
\* loop leaves the loop at the sleep before the next cycle, and the only
\* step that takes the analysis loop out of `while True` is the interrupt.
C27_Original ==
    [][/\ ExceptionStep => apc' = "sleep"
       /\ (apc \in LoopPlaces /\ apc' \notin LoopPlaces) => Interrupt]_vars

\* with a negative interval an exception was caught in the first cycle
\* and the loop has ended without an interrupt
C27_Witness ==
    /\ interval < 0
    /\ last_log = "raised"
    /\ cycles = 1
    /\ apc = "failed"

\* with an interval that is not negative an exception was caught in the
\* first cycle and the second cycle has taken its screenshot
C27_NextCycleWitness ==
    /\ interval >= 0
    /\ last_log = "raised"
    /\ cycles = 2
    /\ apc = "captured"

-----------------------------------------------------------------------------
(* Part VIII claims: the waits of the output worker *)

\* the ranges of the statement, in tenths of a second
StatedRange(depth) ==
    IF depth = 0 THEN <<10, 20>>
    ELSE IF depth \in 1..5 THEN <<8, 50>>
    ELSE IF depth \in 6..10 THEN <<5, 35>>
    ELSE <<3, 10>>

\* C28: when the worker attempts a dequeue it has slept a time within the
\* range of the queue depth it saw at the start of the iteration ([1.0,
\* 2.0] s at 0, [0.8, 5.0] s at 1..5, [0.5, 3.5] s at 6..10, [0.3, 1.0] s
\* above 10) and has taken nothing since; when it writes, that sleep of
\* at least 0.3 s came after the write before, and it holds one element.
C28_PacedWrites ==
    /\ wpc \in {"w_wait", "w_write"} =>
           /\ StatedRange(queue_size)[1] <= wait_time
           /\ wait_time <= StatedRange(queue_size)[2]
           /\ wait_time >= 3
           /\ paced_writes = Len(write_log)
    /\ wpc = "w_wait" => IsNone(comment_item)
    /\ wpc = "w_write" =>
           /\ ~IsNone(comment_item)
           /\ Len(acked) = Len(write_log)

\* after one write the worker saw more than ten elements, slept 0.3 s and
\* holds the next element
C28_Witness ==
    /\ wpc = "w_write"
    /\ Len(write_log) = 1
    /\ queue_size > 10
    /\ wait_time = 3

\* C29 as stated: for every depth below the one the worker saw, the upper
\* and the lower bound of its range are at least those of the range used.
C29_Original ==
    wpc = "w_wait" =>
        \A d1 \in 0..(queue_size - 1) :
            /\ WaitRange(queue_size)[2] <= WaitRange(d1)[2]
            /\ WaitRange(queue_size)[1] <= WaitRange(d1)[1]

\* C29: the lower bound of the wait never grows with the depth; the upper
\* bound never grows from a depth of one on, but at depth 0 it is 2.0 s,
\* below the 5.0 s of the depths 1..5 and the 3.5 s of the depths 6..10.
C29_ShrinksFromDepthOne ==
    wpc = "w_wait" =>
        /\ \A d1 \in 0..(queue_size - 1) :
               /\ WaitRange(queue_size)[1] <= WaitRange(d1)[1]
               /\ d1 >= 1 => WaitRange(queue_size)[2] <= WaitRange(d1)[2]
        /\ queue_size \in 1..10 =>
               WaitRange(queue_size)[2] > WaitRange(0)[2]
        /\ wait_time <= WaitRange(queue_size)[2]

\* the worker saw more than ten elements and slept the longest time of
\* that range
C29_Witness ==
    /\ wpc = "w_wait"
    /\ queue_size > 10
    /\ wait_time = 10

-----------------------------------------------------------------------------
(* Part III claims: the write counter *)

\* the step is a call of the log writer
WriteStep == Len(write_log') = Len(write_log) + 1

\* C30: comment_counter is the number of calls of the log writer so far
\* in which nothing raised; no step lowers it or sets it back, a call in
\* which nothing raised adds exactly one, and a call that raised and
\* every other step leave it as it is.
C30_CounterSteps ==
    /\ [](comment_counter = Len(OkWrites))
    /\ [][/\ comment_counter' >= comment_counter
          /\ comment_counter' =
                 IF WriteStep /\ write_log'[Len(write_log')].ok
                 THEN comment_counter + 1
                 ELSE comment_counter]_vars

\* one write failed and one succeeded: the counter is one after two calls
C30_Witness ==
    /\ Len(write_log) = 2
    /\ ~write_log[1].ok
    /\ write_log[2].ok
    /\ comment_counter = 1

-----------------------------------------------------------------------------
(* Part IX claims: capture and chunking *)

\* the samples of a sequence of frames, in their order
RECURSIVE SamplesOf(_)
SamplesOf(frames) ==
    IF frames = <<>> THEN <<>> ELSE Head(frames) \o SamplesOf(Tail(frames))

\* C31 as stated: the capture queue is bounded and the callback drops the
\* oldest frame of a full queue, so however many callbacks a behaviour
\* has, the queue never comes to hold every frame of them.
C31_Original == Len(audio_queue) < MaxFrames

\* every callback of the behaviour has queued its frame, no frame was
\* dropped and none was taken: the queue has grown with every callback
C31_Witness ==
    /\ frames_captured = MaxFrames
    /\ Len(audio_queue) = frames_captured
    /\ dropped = 0
    /\ \A t \in ProcIds : pulled[t] = <<>>

\* C32 as stated: a processing thread takes a frame from the capture
\* queue only when every processing thread started before it has left
\* its loop.
C32_Original ==
    [][\A t \in ProcIds :
          pulled'[t] # pulled[t] =>
              \A u \in ProcIds : u < t => kpc[u] = "done"]_vars

\* two processing threads in their loops, and the earlier one has taken a
\* frame captured after a frame the later one took
C32_Witness ==
    /\ started = 2
    /\ kpc[1] # "done"
    /\ kpc[2] # "done"
    /\ \E i \in DOMAIN pulled[1], j \in DOMAIN pulled[2] :
          pulled[1][i][1] > pulled[2][j][1]

\* C33: for every processing thread, each chunk cut off for transcription
\* has exactly chunk_size samples; the chunks followed by the buffer are
\* the samples of the frames the thread took, each once and in the order
\* taken; and while no frame taken was longer than a chunk, the buffer
\* holds fewer than chunk_size samples after every iteration.
C33_ExactChunks ==
    \A t \in ProcIds :
        /\ \A i \in DOMAIN chunks[t] : Len(chunks[t][i]) = ChunkSize
        /\ SamplesOf(chunks[t]) \o audio_buffer[t] = SamplesOf(pulled[t])
        /\ (\A i \in DOMAIN pulled[t] : Len(pulled[t][i]) <= ChunkSize)
               => Len(audio_buffer[t]) < ChunkSize

\* a thread has cut a chunk out of frames shorter than a chunk and keeps
\* a remainder: the chunk ends inside a frame
C33_Witness ==
    \E t \in ProcIds :
        /\ Len(chunks[t]) = 1
        /\ audio_buffer[t] # <<>>
        /\ Len(pulled[t]) = 2
        /\ Len(pulled[t][1]) = 1
        /\ Len(pulled[t][2]) = ChunkSize

-----------------------------------------------------------------------------
(* Part X claims: starts and stops of the output thread *)

\* the output threads that are alive
AliveThreads == {t \in WorkerIds : IsAlive(tpc[t])}

\* C34: at most one output thread is alive at any time, whatever the
\* sequence of start_xml_output_thread and stop_xml_output_thread calls.
C34_OneWorker == Cardinality(AliveThreads) <= 1

\* a stop whose join timed out, a start that found the thread alive and
\* created none, and after the end of that thread a start that created
\* the second thread
C34_Witness ==
    /\ calls = <<"started", "stop_timeout", "start_skipped", "started">>
    /\ tpc[1] = "w_exit"
    /\ IsAlive(tpc[2])

\* the comments thread `t` wrote after the first `n` writes
WritesAfter(t, n) ==
    {k \in DOMAIN thread_writes : k > n /\ thread_writes[k].thread = t}

\* the sentinel was put for thread t
SentinelPutFor(t) == \E i \in DOMAIN stop_marks : stop_marks[i].thread = t

\* the comment is among the elements `queued`
QueuedIn(item, queued) == \E j \in DOMAIN queued : queued[j] = Some(item)

C40_Original ==
    (Created > 0 /\ AliveThreads = {} /\ lpc = "idle")
        => \A j \in DOMAIN comment_queue : ~IsSentinel(comment_queue[j])

\* the second output thread has ended on the sentinel of the first stop,
\* with the flag set and a comment put after its start left on the queue
C40_Witness ==
    /\ calls = <<"started", "stop_joined", "started">>
    /\ tpc[2] = "w_exit"
    /\ xml_thread_running
    /\ thread_writes = <<>>
    /\ comment_queue = <<Some(1)>>

-----------------------------------------------------------------------------
(* Part II claims: what is queued is written *)

\* the comments put on the queue so far
PutCount == unfinished_tasks + Len(acked)

\* comments put in one run of SpecFaults
PutNumbers == 1..(3 * (MaxRunCycles + 1))

\* every comment put on the queue is dequeued and handed to the log
\* writer, in the order of the puts
EveryPutWritten ==
    \A n \in PutNumbers : (PutCount >= n) ~> (Len(write_log) >= n)

\* C36 as stated: with the worker running and no stop requested, every
\* comment put on the queue is eventually dequeued, and when its own write
\* does not raise it is an entry of the log file after that write,
\* whatever happened to the writes before it.
C36_Original ==
    /\ EveryPutWritten
    /\ [][(WriteStep /\ write_log'[Len(write_log')].ok)
             => Contains(Val(xml_file'),
                         EntryOf(write_log'[Len(write_log')]))]_vars

\* an earlier write raised after open(..., 'w') had emptied the file; the
\* write of the next comment raised nothing and the file is still empty
C36_Witness ==
    /\ Len(write_log) = 2
    /\ ~write_log[1].ok
    /\ write_log[2].ok
    /\ xml_file = Some(<<>>)

-----------------------------------------------------------------------------
(* Part II claims: what the normalizer reports *)

\* the strings parse_json_response returns to report a reply it could not
\* use
DiagnosticStrings == {SchemaErrorString, ParseErrorString}

\* C37 as stated: no comment on the queue is a diagnostic string of the
\* normalizer.
C37_Original ==
    \A i \in DOMAIN comment_queue :
        ~IsSentinel(comment_queue[i])
            => Val(comment_queue[i]).comment \notin DiagnosticStrings

\* the reply was a JSON array, and the schema-error string is on the
\* queue as the comment of the single-comment branch
C37_Witness ==
    /\ raw_response = ArrayReply
    /\ comment_queue # <<>>
    /\ comment_queue[Len(comment_queue)] = Some(LegacyItem(SchemaErrorString))

\* the reply held an older key with a number, and the parse-error string
\* is on the queue
C37_ParseErrorWitness ==
    /\ comment_queue # <<>>
    /\ comment_queue[Len(comment_queue)] = Some(LegacyItem(ParseErrorString))

-----------------------------------------------------------------------------
(* Part II claims: whose comments are queued *)

\* the CommentItem of the registry persona `id` with the comment of `e`
RegistryItem(id, e) ==
    [handle |-> DefaultPersonas[id].handle,
     persona |-> DefaultPersonas[id].name,
     comment |-> CommentOf(e.value)]

\* the item belongs to one of the personas `ids` of the registry
BelongsTo(item, ids) ==
    \E id \in ids \cap DOMAIN DefaultPersonas :
        /\ item.handle = DefaultPersonas[id].handle
        /\ item.persona = DefaultPersonas[id].name

\* the ids of a list of persona ids
IdsOf(expected) == {expected[i] : i \in DOMAIN expected}

-----------------------------------------------------------------------------
(* Part III claims: the interrupt and the shutdown *)

\* run_continuous_analysis has been left: by its last statement, or by
\* an exception
LoopLeft == apc \in {"stopped", "interrupted"}

\* C39 as stated: once an interrupt has ended the loop and the function
\* has been left, the recognizer has been stopped, the running flag
\* cleared and, for a worker then alive, the sentinel put.
C39_Original ==
    LoopLeft =>
        /\ VoiceStopped
        /\ Happened("running_flag")
        /\ ~xml_thread_running

\* the interrupt came during the sleep that follows a caught exception:
\* the function has been left with the local recognizer still processing,
\* the running flag set, the worker alive and no sentinel put
C39_Witness ==
    /\ apc = "interrupted"
    /\ stop_events = <<>>
    /\ voice_kind = "local"
    /\ is_processing
    /\ xml_thread_running
    /\ WorkerAlive
    /\ \A i \in DOMAIN comment_queue : ~IsSentinel(comment_queue[i])

\* an interrupt in the try block of the cycle after a caught exception:
\* the shutdown has run
C39_TryBlockWitness ==
    /\ apc = "stopped"
    /\ last_log = "raised"
    /\ VoiceStopped
    /\ Happened("sentinel")

====
